---- MODULE Spec2Model ----
(***************************************************************************)
(* A model of the signed message protocol (shared/asymmetric_crypto.py),   *)
(* the per-connection dispatcher of the remote server                      *)
(* (nlsh_remote/server.py), the persistent client connection               *)
(* (nlsh/remote_client.py) and the remote script executor                  *)
(* (nlsh_remote/script_executor.py).                                       *)
(*                                                                         *)
(* Three specifications share one module:                                  *)
(*   Spec      signing, verification, re-signing and the server's loop     *)
(*   SpecConn  the persistent connection's request/response correlation    *)
(*   SpecExec  the script executor's execute / cancel / timeout            *)
(***************************************************************************)
EXTENDS Integers, Sequences, FiniteSets, TLC

VARIABLES
    \* ---- signing and the server's dispatcher ----
    now,          \* the wall clock read by get_timestamp(), in seconds
    ticks,        \* how many times the clock has advanced
    wire,         \* the frame in flight to the verifier (NoFrame when none)
    signed,       \* the envelope as sign_message returned it, and its signer
    tampered,     \* whether the frame in flight was altered after signing
    verdict,      \* the last verify_message call: its arguments and result
    resigned,     \* the last re_sign_message call: its input and output
    srv,          \* the server's connection loop: position and locals
    \* ---- the persistent connection (PersistentRemoteConnection) ----
    request_id_counter,  \* _request_id_counter
    pending_requests,    \* the keys of _pending_requests (one future each)
    calls,               \* the _send_and_wait calls in progress, by request id
    returned,            \* how the last _send_and_wait call to end ended
    sent,                \* requests the server has received and not answered
    inbound,             \* frames written by the server, not yet read
    connected,           \* _connected: connect() has returned
    echoes,              \* whether the server reached copies request_id into replies
    pushed,              \* the last frame handed to _handle_server_push
    \* ---- the remote script executor (RemoteScriptExecutor) ----
    running_scripts,     \* the keys of running_scripts
    ex,                  \* the execute_script call: position and result
    rs,                  \* the call's RunningScript object
    readers,             \* the two stream_output tasks
    proc,                \* the script's process group and its two pipes
    signals,             \* the killpg calls that reached the group, in order
    temp_files,          \* script ids whose temporary script file exists
    cn,                  \* the cancel_script call that found its script running
    refusal,             \* the last cancel_script call that found nothing to cancel
    \* ---- the life of the persistent connection and of the MCP manager ----
    client,              \* the socket of self._client (0: no client or no socket)
    sockets,             \* sockets this PersistentRemoteConnection opened, still open
    opened,              \* sockets it has opened so far
    receive_task,        \* _receive_task
    ping_task,           \* _ping_task
    reconn,              \* the _reconnect call: position, attempt, delay, sleeps made
    ops,                 \* the operations in progress (execute_command, execute_script)
    mcp,                 \* a RemoteConnectionManager: flag, socket, sockets still open
    \* ---- MessageRouter and the notification queue of a RemoteSession ----
    router,              \* _async_handlers and _sync_handlers of the handled type
    notification_queue,  \* (message, handler) entries waiting for the main thread
    rt,                  \* the route call the receive loop is in
    pn,                  \* the process_notifications call the main thread is in
    pushes,              \* route calls begun so far
    awaited,             \* log: (message, handler) awaited on the event loop
    enqueued,            \* log: every entry ever put on the queue
    called,              \* log: entries whose handler process_notifications called
    routed,              \* log: the route calls that ended, with their handler lists
    \* ---- one executor serving several execute_script calls ----
    scripts,             \* running_scripts: per script id, the call whose RunningScript it holds (0: none)
    runs,                \* per call: its position, its process and its RunningScript
    chunks,              \* log: per call, the on_output calls its readers made, in order
    script_files,        \* script ids whose temporary script file exists
    \* ---- the local ScriptExecutor ----
    lx,                  \* its execute_script call: position, locals, RunningScript
    observed,            \* log: what get_progress returned, in order
    \* ---- the interpretation worker ----
    sequence_counter,    \* _sequence_counter
    request_queue,       \* the requests held by _request_queue
    scheduled,           \* requests whose _async_enqueue is scheduled on the loop
    worker,              \* _worker_loop: its position and the request it took
    last_enqueue,        \* the last _async_enqueue: its request and what it evicted
    issued,              \* log: the sequence numbers enqueue assigned, in order
    \* ---- run_shell_script and the protocol records ----
    tool,                \* the last run_shell_script call: inputs, review, what it did
    codec,               \* the last record put through to_payload and from_payload
    \* ---- frames on the persistent connection ----
    to_server,           \* per socket: the requests written and not yet read by the server
    to_client,           \* per socket: the frames the server wrote, not yet read by the client
    peer,                \* per socket: the script the server is streaming, if any
    sent_on,             \* per request id: the socket its request was sent on (0: none)
    last_event,          \* the last completion, timeout, on_output call or return
    script_calls         \* execute_script calls begun on the connection

cryptoVars == <<now, ticks, wire, signed, tampered, verdict, resigned, srv>>

connVars == <<request_id_counter, pending_requests, calls, returned, sent, inbound, connected, echoes, pushed>>

execVars == <<running_scripts, ex, rs, readers, proc, signals, temp_files, cn, refusal>>

linkVars == <<client, sockets, opened, receive_task, ping_task, reconn, ops, mcp>>

routeVars == <<router, notification_queue, rt, pn, pushes, awaited, enqueued, called, routed>>

engineVars == <<scripts, runs, chunks, script_files, lx, observed>>

workerVars == <<sequence_counter, request_queue, scheduled, worker, last_enqueue, issued>>

duplexVars == <<to_server, to_client, peer, sent_on, last_event, script_calls>>

appVars == <<workerVars, tool, codec, duplexVars>>

vars == <<cryptoVars, connVars, execVars, linkVars, routeVars, engineVars, appVars>>

(***************************************************************************)
(* Bounds of the model.                                                    *)
(***************************************************************************)
MaxTicks == 2        \* clock advances explored

(***************************************************************************)
(* Text: Python's str() of an int, as the f-string of                      *)
(* create_canonical_message and json.dumps produce it.                     *)
(***************************************************************************)
Digit(d) ==
    CASE d = 0 -> "0" [] d = 1 -> "1" [] d = 2 -> "2" [] d = 3 -> "3"
      [] d = 4 -> "4" [] d = 5 -> "5" [] d = 6 -> "6" [] d = 7 -> "7"
      [] d = 8 -> "8" [] d = 9 -> "9"

RECURSIVE NatToStr(_)
NatToStr(n) == IF n < 10 THEN Digit(n) ELSE NatToStr(n \div 10) \o Digit(n % 10)

IntToStr(n) == IF n < 0 THEN "-" \o NatToStr(0 - n) ELSE NatToStr(n)

(***************************************************************************)
(* JSON values as the envelope carries them after json.loads: a scalar is  *)
(* an int, a str or null, kept apart by its kind so that the int 300 and   *)
(* the str "300" are different values with the same text.                  *)
(***************************************************************************)
JInt(n) == [kind |-> "int", int |-> n, str |-> ""]
JStr(s) == [kind |-> "str", int |-> 0, str |-> s]
JNull == [kind |-> "null", int |-> 0, str |-> ""]

\* str(x) of a scalar, as f"{x}" formats it
PyStr(x) ==
    CASE x.kind = "int" -> IntToStr(x.int)
      [] x.kind = "str" -> x.str
      [] x.kind = "null" -> "None"

\* json.dumps(x) of a scalar
JsonScalar(x) ==
    CASE x.kind = "int" -> IntToStr(x.int)
      [] x.kind = "str" -> "\"" \o x.str \o "\""
      [] x.kind = "null" -> "null"

\* The payload keys of the protocol's request records, in sorted order
\* (json.dumps(..., sort_keys=True) emits them in this order).
SortedKeys == <<"command", "cwd", "data", "mode", "remote_path", "status", "timeout">>

RECURSIVE DumpsFrom(_, _, _)
DumpsFrom(payload, i, first) ==
    IF i > Len(SortedKeys) THEN ""
    ELSE IF SortedKeys[i] \in DOMAIN payload
         THEN (IF first THEN "" ELSE ",")
              \o "\"" \o SortedKeys[i] \o "\":" \o JsonScalar(payload[SortedKeys[i]])
              \o DumpsFrom(payload, i + 1, FALSE)
         ELSE DumpsFrom(payload, i + 1, first)

\* json.dumps(payload, sort_keys=True, separators=(',', ':'))
json_dumps(payload) == "{" \o DumpsFrom(payload, 1, TRUE) \o "}"

(***************************************************************************)
(* shared/asymmetric_crypto.py                                             *)
(***************************************************************************)
MAX_MESSAGE_AGE == 300

\* The key pairs: one per hop of the chain, and one of an outsider.
Hops == {"nlsh", "mcp"}
Keys == Hops \cup {"mallory"}

\* variant: the canonical text leaves the payload out
create_canonical_message_no_payload(msg_type, timestamp, nonce, payload) ==
    msg_type \o ":" \o PyStr(timestamp) \o ":" \o nonce

\* create_canonical_message: f"{msg_type}:{timestamp}:{nonce}:{payload_str}"
create_canonical_message(msg_type, timestamp, nonce, payload) ==
    msg_type \o ":" \o PyStr(timestamp) \o ":" \o nonce \o ":" \o json_dumps(payload)

\* Ed25519, idealised: the signature of a message under a private key is a
\* value only that key produces, and it verifies for that key and message only.
Ed25519Sign(key, message) == [kind |-> "sig", key |-> key, msg |-> message]
BadHexSignature == [kind |-> "nothex", key |-> "", msg |-> ""]
Ed25519Verify(key, message, signature) ==
    signature = Ed25519Sign(key, message)

create_signature(private_key, msg_type, timestamp, nonce, payload) ==
    Ed25519Sign(private_key, create_canonical_message(msg_type, timestamp, nonce, payload))

\* The result of a verification: (is_valid, error_message), or the exception
\* that left the call.
Valid == [ok |-> TRUE, error |-> "", raised |-> ""]
Invalid(e) == [ok |-> FALSE, error |-> e, raised |-> ""]
Raised(e) == [ok |-> FALSE, error |-> "", raised |-> e]

Abs(x) == IF x < 0 THEN 0 - x ELSE x

\* (False, f"Message expired (age: {age}s)")
Expired(age) == Invalid("Message expired (age: " \o IntToStr(age) \o "s)")

\* variant: the age check rejects at MAX_MESSAGE_AGE already
verify_signature_ge(public_key, msg_type, timestamp, nonce, payload, signature, check_timestamp, current_time) ==
    IF check_timestamp /\ timestamp.kind # "int"
    THEN Raised("TypeError")
    ELSE IF check_timestamp
            /\ Abs(current_time - timestamp.int) >= MAX_MESSAGE_AGE
    THEN Expired(Abs(current_time - timestamp.int))
    ELSE IF signature.kind = "nothex"
    THEN Invalid("Invalid signature format")
    ELSE IF Ed25519Verify(public_key,
                create_canonical_message(msg_type, timestamp, nonce, payload),
                signature)
    THEN Valid
    ELSE Invalid("Invalid signature")

verify_signature(public_key, msg_type, timestamp, nonce, payload, signature, check_timestamp, current_time) ==
    IF check_timestamp /\ timestamp.kind # "int"
    THEN Raised("TypeError")              \* abs(current_time - timestamp)
    ELSE IF check_timestamp
            /\ Abs(current_time - timestamp.int) > MAX_MESSAGE_AGE
    THEN Expired(Abs(current_time - timestamp.int))
    ELSE IF signature.kind = "nothex"
    THEN Invalid("Invalid signature format")   \* bytes.fromhex: ValueError
    ELSE IF Ed25519Verify(public_key,
                create_canonical_message(msg_type, timestamp, nonce, payload),
                signature)
    THEN Valid
    ELSE Invalid("Invalid signature")

EnvelopeFields == <<"type", "payload", "timestamp", "nonce", "signature">>

RECURSIVE FirstMissing(_, _)
FirstMissing(message, i) ==
    IF i > Len(EnvelopeFields) THEN ""
    ELSE IF EnvelopeFields[i] \notin DOMAIN message THEN EnvelopeFields[i]
    ELSE FirstMissing(message, i + 1)

\* variant: the age of an envelope that has a timestamp is tested before
\* the fields are looked up
verify_message_age_first(public_key, message, check_timestamp, current_time) ==
    IF /\ check_timestamp
       /\ "timestamp" \in DOMAIN message
       /\ message.timestamp.kind = "int"
       /\ Abs(current_time - message.timestamp.int) > MAX_MESSAGE_AGE
    THEN Expired(Abs(current_time - message.timestamp.int))
    ELSE IF FirstMissing(message, 1) # ""
    THEN Invalid("Missing required field: '" \o FirstMissing(message, 1) \o "'")
    ELSE verify_signature(public_key, message.type, message.timestamp,
                          message.nonce, message.payload, message.signature,
                          check_timestamp, current_time)

verify_message(public_key, message, check_timestamp, current_time) ==
    IF FirstMissing(message, 1) # ""
    THEN Invalid("Missing required field: '" \o FirstMissing(message, 1) \o "'")
    ELSE verify_signature(public_key, message.type, message.timestamp,
                          message.nonce, message.payload, message.signature,
                          check_timestamp, current_time)

\* variant: the envelope carries a timestamp read after the signature was made
sign_message_late_stamp(private_key, msg_type, payload, timestamp, nonce) ==
    [type |-> msg_type,
     payload |-> payload,
     timestamp |-> JInt(timestamp + 1),
     nonce |-> nonce,
     signature |-> create_signature(private_key, msg_type, JInt(timestamp), nonce, payload)]

\* sign_message, given what get_timestamp() and generate_nonce() returned
sign_message(private_key, msg_type, payload, timestamp, nonce) ==
    [type |-> msg_type,
     payload |-> payload,
     timestamp |-> JInt(timestamp),
     nonce |-> nonce,
     signature |-> create_signature(private_key, msg_type, JInt(timestamp), nonce, payload)]

\* variant: the relay forwards the envelope as it came
re_sign_message_forward(original_message, new_private_key, timestamp, nonce) ==
    original_message

re_sign_message(original_message, new_private_key, timestamp, nonce) ==
    sign_message(new_private_key, original_message.type, original_message.payload,
                 timestamp, nonce)

\* generate_nonce(): a uuid4; the values it can return.  A fresh one differs
\* from every nonce in use.
Nonces == {"0c7a", "51fe"}
generate_nonce(used) == Nonces \ used


(***************************************************************************)
(* The requests a client signs (shared/protocol.py, the to_payload of each *)
(* request record), and one type the server has no handler for.            *)
(***************************************************************************)
CommandPayload(c) == [command |-> JStr(c), cwd |-> JNull, timeout |-> JInt(300)]
UploadPayload == [remote_path |-> JStr("/tmp/f"), data |-> JStr("aGk="), mode |-> JStr("0644")]
DownloadPayload == [remote_path |-> JStr("/tmp/f")]
PingPayload == [status |-> JStr("ping")]

Requests ==
    { [type |-> "command", payload |-> CommandPayload("ls")],
      [type |-> "upload", payload |-> UploadPayload],
      [type |-> "download", payload |-> DownloadPayload],
      [type |-> "ping", payload |-> PingPayload],
      [type |-> "script", payload |-> CommandPayload("ls")] }

\* requests whose payload lacks a field the handler's from_payload reads
Incomplete ==
    { [type |-> "command", payload |-> [cwd |-> JNull]],
      [type |-> "upload", payload |-> [remote_path |-> JStr("/tmp/f")]],
      [type |-> "download", payload |-> [mode |-> JStr("0644")]] }

\* requests of the other types of MessageType that a client sends
OtherRequests ==
    { [type |-> "script_cancel", payload |-> [script_id |-> JStr("A")]],
      [type |-> "cache_lookup", payload |-> [key |-> JStr("k")]],
      [type |-> "cache_store_exec", payload |-> [key |-> JStr("k"), command |-> JStr("ls")]] }

\* How far a signer's clock may run ahead of the verifier's.
ClockSkews == {0, MAX_MESSAGE_AGE + 1}

\* The steps by which the clock advances.
TickSteps == {1, MAX_MESSAGE_AGE}

NoFrame == [absent |-> TRUE]
NotJson == [garbled |-> TRUE]
NoSigned == [by |-> ""]
NoVerdict == [key |-> ""]
NoResign == [by |-> ""]

\* the server loop's locals before a frame arrives
NoEffect == [kind |-> "none", what |-> ""]
NoReply == [type |-> "", code |-> "", returncode |-> 0, success |-> FALSE]
Idle == [pc |-> "recv", message |-> NoFrame, is_valid |-> FALSE, error |-> "", verified_at |-> 0, handler |-> "", outcome |-> "", effect |-> NoEffect, reply |-> NoReply, again |-> FALSE]

IsEnvelope(f) == f # NoFrame /\ f # NotJson

NoncesOf(f) == IF IsEnvelope(f) /\ "nonce" \in DOMAIN f THEN {f.nonce} ELSE {}

(***************************************************************************)
(* What a party on the path can turn a frame into without the signer's     *)
(* private key: one field replaced, one field dropped.  A replaced         *)
(* signature is malformed, made with the outsider's key over the frame's   *)
(* own fields, or one seen before.                                         *)
(***************************************************************************)
FieldValues(f, field) ==
    CASE field = "type" -> {"command", "upload"}
      [] field = "payload" -> {CommandPayload("rm -rf /"), [cwd |-> JNull]}
      [] field = "timestamp" ->
            {JInt(now), JInt(f.timestamp.int + 1), JStr(PyStr(f.timestamp))}
      [] field = "nonce" -> Nonces
      [] field = "signature" ->
            {BadHexSignature,
             create_signature("mallory", f.type, f.timestamp, f.nonce, f.payload)}

Restrict(f, field) == [k \in (DOMAIN f) \ {field} |-> f[k]]

\* ---- the persistent connection: its state after __init__ and connect ----
MaxRequests == 3     \* _send_and_wait calls made over the connection
MaxInFlight == 2     \* _send_and_wait calls in progress at once
MaxInbound == 2      \* frames the server has written that are not yet read
Served == 8          \* requests a connection has served before the ones followed

NoReturn == [id |-> 0, how |-> "", request_id |-> "", type |-> ""]
NoPush == [type |-> "", request_id |-> ""]

InitConn ==
    /\ request_id_counter = 0
    /\ pending_requests = {}
    /\ calls = <<>>
    /\ returned = NoReturn
    /\ sent = {}
    /\ inbound = <<>>
    /\ connected = FALSE
    /\ echoes = FALSE
    /\ pushed = NoPush

\* ---- the remote script executor: its state after __init__ ----
MaxLines == 1        \* lines a script writes to each of stdout and stderr

ScriptIds == {"A", "B"}
StreamNames == {"stdout", "stderr"}
PyNone == "<None>"

NoCall == [pc |-> "idle", script_id |-> "", returncode |-> 0, error_message |-> PyNone]
NoScript == [state |-> "", stdout_buffer |-> <<>>, stderr_buffer |-> <<>>, sequence |-> 0]
NoProcess == [leader |-> FALSE, child |-> FALSE, returncode |-> 0, written |-> [s \in StreamNames |-> 0], pipe |-> [s \in StreamNames |-> 0]]
NoCancel == [pc |-> "idle", script_id |-> "", sig |-> "", found |-> "", was_running |-> FALSE, partial_stdout |-> "", partial_stderr |-> ""]

InitExec ==
    /\ running_scripts = {}
    /\ ex = NoCall
    /\ rs = NoScript
    /\ readers = [s \in StreamNames |-> "none"]
    /\ proc = NoProcess
    /\ signals = <<>>
    /\ temp_files = {}
    /\ cn = NoCancel
    /\ refusal = NoCancel

\* ---- the persistent connection's life: its state after __init__ ----
MaxSockets == 2      \* sockets a PersistentRemoteConnection opens
MaxManagerSockets == 3   \* sockets a RemoteConnectionManager opens

max_reconnect_attempts == 5
reconnect_delay == 1

Scripts == {"script A", "script B"}
OpKinds == {"command"} \cup Scripts

NoReconnect == [pc |-> "idle", attempt |-> 0, delay |-> 0, slept |-> <<>>, owner |-> ""]
NoPing == [pc |-> "none", request_id |-> 0]
NoOp == [pc |-> "idle", request_id |-> 0, via |-> 0]
NoManager == [connected |-> FALSE, websocket |-> 0, open |-> {}, opened |-> 0, pc |-> "idle", current_cwd |-> PyNone]

InitLink ==
    /\ client = 0
    /\ sockets = {}
    /\ opened = 0
    /\ receive_task = "none"
    /\ ping_task = NoPing
    /\ reconn = NoReconnect
    /\ ops = [k \in OpKinds |-> NoOp]
    /\ mcp = NoManager

\* ---- the message router of a RemoteSession: its state after __init__ ----
MaxPushes == 2       \* push messages the receive loop routes
MaxCount == 2        \* largest max_count given to process_notifications

PushTypes == {"push_notification", "push_command"}
HandledType == "push_notification"
AsyncNames == {"a1", "a2"}
SyncNames == {"s1", "s2"}

NoRoute == [pc |-> "idle", msg |-> 0, async |-> <<>>, sync |-> <<>>, at |-> 0]
NoProcessing == [pc |-> "idle", processed |-> 0, max_count |-> 0]

InitRoute ==
    /\ router = [async |-> <<>>, sync |-> <<>>]
    /\ notification_queue = <<>>
    /\ rt = NoRoute
    /\ pn = NoProcessing
    /\ pushes = 0
    /\ awaited = <<>>
    /\ enqueued = <<>>
    /\ called = <<>>
    /\ routed = <<>>

\* ---- one executor serving several calls: its state after __init__ ----
MaxChunks == 3       \* lines such a script writes, on stdout and stderr together

\* the execute_script calls made on one RemoteScriptExecutor
Calls == {1, 2}

NoRun == [pc |-> "idle", script_id |-> "", alive |-> FALSE, state |-> "", sequence |-> 0, stdout_buffer |-> <<>>, stderr_buffer |-> <<>>, reader |-> [s \in StreamNames |-> "none"]]

InitScripts ==
    /\ scripts = [script_id \in ScriptIds |-> 0]
    /\ runs = [c \in Calls |-> NoRun]
    /\ chunks = [c \in Calls |-> <<>>]
    /\ script_files = {}

\* ---- the local ScriptExecutor: its state after __init__ ----
MaxStep == 2         \* the largest number in a step marker
MaxPrinted == 2      \* lines the local script writes

\* None where a RunningScript, a match or a progress pair is expected
NoRunning == [found |-> FALSE, steps_completed |-> 0, total_steps |-> 0]
NoMatch == [matched |-> FALSE, n |-> 0, m |-> 0]

NoLocal == [pc |-> "idle", total_steps |-> 0, steps_completed |-> 0, running |-> NoRunning, alive |-> FALSE, stdout_buffer |-> <<>>, stderr_buffer |-> <<>>, step_match |-> NoMatch]

InitLocal ==
    /\ lx = NoLocal
    /\ observed = <<>>

(***************************************************************************)
(* The interpretation worker, run_shell_script, the protocol records and   *)
(* the frames of the persistent connection: bounds and initial state.      *)
(***************************************************************************)
HIGH == 0
NORMAL == 1
LOW == 2
RequestPriority == {HIGH, NORMAL, LOW}

max_queue_size == 2    \* the worker's max_queue_size argument
MaxEnqueues == 4       \* enqueue calls explored

NoRequest == [priority |-> -1, sequence |-> -1]
NoEnqueue == [request |-> NoRequest, full |-> FALSE, dropped |-> NoRequest, result |-> FALSE]

InitWorker ==
    /\ sequence_counter = 0
    /\ request_queue = {}
    /\ scheduled = {}
    /\ worker = [started |-> FALSE, pc |-> "none", request |-> NoRequest, before |-> {}]
    /\ last_enqueue = NoEnqueue
    /\ issued = <<>>

MaxScriptLines == 2    \* lines of a reviewed script

NoReview == [approved |-> FALSE, risk_level |-> "", warnings |-> <<>>, dangerous_ops |-> <<>>]
NoTool == [pc |-> "idle", script |-> <<>>, SKIP_PERMISSIONS |-> FALSE, REMOTE_MODE |-> FALSE, review |-> NoReview, prompts |-> <<>>, executed |-> "", returned |-> ""]

InitTool == tool = NoTool

MaxBytes == 3          \* length of the byte strings put through base64

NoCodec == [pc |-> "idle", record |-> [type |-> ""], payload |-> [type |-> ""], back |-> [type |-> ""]]

InitCodec == codec = NoCodec

MaxStreamed == 1       \* chunks the server streams for one script
MaxScriptCalls == 2    \* execute_script calls made on one connection

NoStreaming == [script_id |-> "", streamed |-> 0]
NoEvent == [kind |-> "", who |-> "", request_id |-> 0, script_id |-> "", sent_on |-> 0, arrived_on |-> 0]

InitDuplex ==
    /\ to_server = [s \in 1..MaxSockets |-> <<>>]
    /\ to_client = [s \in 1..MaxSockets |-> <<>>]
    /\ peer = [s \in 1..MaxSockets |-> NoStreaming]
    /\ sent_on = [n \in 1..MaxRequests |-> 0]
    /\ last_event = NoEvent
    /\ script_calls = 0

Init ==
    /\ now = 0
    /\ ticks = 0
    /\ wire = NoFrame
    /\ signed = NoSigned
    /\ tampered = FALSE
    /\ verdict = NoVerdict
    /\ resigned = NoResign
    /\ srv = Idle
    /\ InitConn
    /\ InitExec
    /\ InitLink
    /\ InitRoute
    /\ InitScripts
    /\ InitLocal
    /\ InitWorker
    /\ InitTool
    /\ InitCodec
    /\ InitDuplex

\* time passes
Tick ==
    /\ ticks < MaxTicks
    /\ \E d \in TickSteps : now' = now + d
    /\ ticks' = ticks + 1
    /\ UNCHANGED <<wire, signed, tampered, verdict, resigned, srv>>
    /\ UNCHANGED <<connVars, execVars, linkVars, routeVars, engineVars, appVars>>

\* a hop signs a request: message = sign_message(private_key, type, payload)
SignOf(requests) ==
    /\ srv.pc = "recv"
    /\ \E key \in Hops, req \in requests, skew \in ClockSkews :
         \E nonce \in generate_nonce(NoncesOf(wire)) :
            /\ wire' = sign_message(key, req.type, req.payload, now + skew, nonce)
            /\ signed' = [by |-> key, envelope |-> wire']
    /\ tampered' = FALSE
    /\ verdict' = NoVerdict
    /\ resigned' = NoResign
    /\ UNCHANGED <<now, ticks, srv>>
    /\ UNCHANGED <<connVars, execVars, linkVars, routeVars, engineVars, appVars>>

\* the frame in flight is altered: one field takes another value
Tamper ==
    /\ srv.pc = "recv"
    /\ IsEnvelope(wire)
    /\ ~tampered
    /\ resigned = NoResign
    /\ \E i \in 1..Len(EnvelopeFields) :
         \E v \in FieldValues(wire, EnvelopeFields[i]) :
            /\ v # wire[EnvelopeFields[i]]
            /\ wire' = [wire EXCEPT ![EnvelopeFields[i]] = v]
    /\ tampered' = TRUE
    /\ verdict' = NoVerdict
    /\ UNCHANGED <<now, ticks, signed, resigned, srv>>
    /\ UNCHANGED <<connVars, execVars, linkVars, routeVars, engineVars, appVars>>

\* the frame in flight loses a field
DropField ==
    /\ srv.pc = "recv"
    /\ IsEnvelope(wire)
    /\ ~tampered
    /\ resigned = NoResign
    /\ \E i \in 1..Len(EnvelopeFields) : wire' = Restrict(wire, EnvelopeFields[i])
    /\ tampered' = TRUE
    /\ verdict' = NoVerdict
    /\ UNCHANGED <<now, ticks, signed, resigned, srv>>
    /\ UNCHANGED <<connVars, execVars, linkVars, routeVars, engineVars, appVars>>

\* the frame in flight is no longer JSON text
Garble ==
    /\ srv.pc = "recv"
    /\ IsEnvelope(wire)
    /\ ~tampered
    /\ resigned = NoResign
    /\ wire' = NotJson
    /\ tampered' = TRUE
    /\ verdict' = NoVerdict
    /\ UNCHANGED <<now, ticks, signed, resigned, srv>>
    /\ UNCHANGED <<connVars, execVars, linkVars, routeVars, engineVars, appVars>>

\* a holder of a public key verifies the frame: verify_message(key, message)
Verify ==
    /\ srv.pc = "recv"
    /\ IsEnvelope(wire)
    /\ \E key \in Hops, check \in BOOLEAN :
         verdict' = [key |-> key, message |-> wire, check |-> check, at |-> now,
                     result |-> verify_message(key, wire, check, now)]
    /\ UNCHANGED <<now, ticks, wire, signed, tampered, resigned, srv>>
    /\ UNCHANGED <<connVars, execVars, linkVars, routeVars, engineVars, appVars>>

\* a relaying hop re-signs the frame it holds with its own key
ReSign ==
    /\ srv.pc = "recv"
    /\ IsEnvelope(wire)
    /\ resigned = NoResign
    /\ {"type", "payload"} \subseteq DOMAIN wire
    /\ \E key \in Hops :
         \E nonce \in generate_nonce(NoncesOf(wire)) :
            /\ wire' = re_sign_message(wire, key, now, nonce)
            /\ resigned' = [by |-> key, type |-> wire.type, payload |-> wire.payload,
                            was |-> signed.by, intact |-> ~tampered, out |-> wire']
            /\ signed' = [by |-> key, envelope |-> wire']
    /\ verdict' = NoVerdict
    /\ UNCHANGED <<now, ticks, tampered, srv>>
    /\ UNCHANGED <<connVars, execVars, linkVars, routeVars, engineVars, appVars>>

\* the requests signed where only the signature is of interest
SignedRequests == {r \in Requests : r.type \in {"command", "ping"}}

Sign == SignOf(SignedRequests)

NextCrypto == Tick \/ Sign \/ Tamper \/ DropField \/ Verify \/ ReSign

Spec == Init /\ [][NextCrypto]_vars


(***************************************************************************)
(* nlsh_remote/server.py: the loop of websocket_endpoint, one frame at a   *)
(* time.  srv.pc is the loop's position:                                   *)
(*   recv      awaiting websocket.receive_text()                           *)
(*   verify    message decoded, verify_message not yet called              *)
(*   dispatch  is_valid and error are set                                  *)
(*   sent      the reply was written; the loop goes round                  *)
(*   closed    an exception left the loop                                  *)
(***************************************************************************)
MCP_PUBLIC_KEY == "mcp"

\* send_error(error, code): an unsigned envelope of type error
send_error(code) == [type |-> "error", code |-> code, returncode |-> 0, success |-> FALSE]

\* variant: every command reply says success
CommandReplyAlwaysSuccess(returncode) ==
    [type |-> "response", code |-> "", returncode |-> returncode, success |-> TRUE]

\* send_response(MessageType.RESPONSE, CommandResponse(...).to_payload())
CommandReply(returncode) ==
    [type |-> "response", code |-> "", returncode |-> returncode,
     success |-> (returncode = 0)]

\* send_response(MessageType.RESPONSE, ...) of upload and download;
\* send_response(MessageType.PONG, {"status": "ok"})
OkReply(type) == [type |-> type, code |-> "", returncode |-> 0, success |-> TRUE]

Text(payload, key) == payload[key].str

\* handle_command(payload), given how the subprocess ended
CommandOutcomes == {"exit0", "exit1", "timeout", "oserror", "nodir"}

\* result.returncode of a subprocess that ran to its end
ReturnCode(outcome) == IF outcome = "exit0" THEN 0 ELSE 1
handle_command(payload, outcome) ==
    IF "command" \notin DOMAIN payload
    THEN [effect |-> NoEffect, reply |-> send_error("INVALID_REQUEST")]
    ELSE IF outcome = "nodir"
    THEN [effect |-> NoEffect, reply |-> send_error("DIR_NOT_FOUND")]
    ELSE [effect |-> [kind |-> "run", what |-> Text(payload, "command")],
          reply |-> CASE outcome \in {"exit0", "exit1"} -> CommandReply(ReturnCode(outcome))
                      [] outcome = "timeout" -> send_error("TIMEOUT")
                      [] outcome = "oserror" -> send_error("EXEC_ERROR")]

\* handle_upload(payload), given how the file system answered
UploadOutcomes == {"written", "denied", "oserror"}

\* variant: the upload handler asks for the path only
handle_upload_path_only(payload, outcome) ==
    IF "remote_path" \notin DOMAIN payload
    THEN [effect |-> NoEffect, reply |-> send_error("INVALID_REQUEST")]
    ELSE [effect |-> [kind |-> "write", what |-> Text(payload, "remote_path")],
          reply |-> CASE outcome = "written" -> OkReply("response")
                      [] outcome = "denied" -> send_error("PERMISSION_DENIED")
                      [] outcome = "oserror" -> send_error("UPLOAD_ERROR")]

handle_upload(payload, outcome) ==
    IF ~({"remote_path", "data"} \subseteq DOMAIN payload)
    THEN [effect |-> NoEffect, reply |-> send_error("INVALID_REQUEST")]
    ELSE [effect |-> [kind |-> "write", what |-> Text(payload, "remote_path")],
          reply |-> CASE outcome = "written" -> OkReply("response")
                      [] outcome = "denied" -> send_error("PERMISSION_DENIED")
                      [] outcome = "oserror" -> send_error("UPLOAD_ERROR")]

\* handle_download(payload), given how the file system answered
DownloadOutcomes == {"read", "missing", "notfile", "denied"}
handle_download(payload, outcome) ==
    IF "remote_path" \notin DOMAIN payload
    THEN [effect |-> NoEffect, reply |-> send_error("INVALID_REQUEST")]
    ELSE CASE outcome = "missing" ->
                [effect |-> NoEffect, reply |-> send_error("FILE_NOT_FOUND")]
           [] outcome = "notfile" ->
                [effect |-> NoEffect, reply |-> send_error("NOT_A_FILE")]
           [] outcome = "denied" ->
                [effect |-> NoEffect, reply |-> send_error("PERMISSION_DENIED")]
           [] outcome = "read" ->
                [effect |-> [kind |-> "read", what |-> Text(payload, "remote_path")],
                 reply |-> OkReply("response")]

handle_ping == [effect |-> NoEffect, reply |-> OkReply("pong")]

\* the client's execute_command on the response: an error frame raises
\* RuntimeError, any other is decoded with CommandResponse.from_payload
execute_command_returns(response) ==
    IF response.type = "error"
    THEN [raised |-> "RuntimeError", returncode |-> 0, success |-> FALSE]
    ELSE [raised |-> "", returncode |-> response.returncode, success |-> response.success]

\* data = await websocket.receive_text(); message = json.loads(data)
SrvReceive ==
    /\ srv.pc = "recv"
    /\ wire # NoFrame
    /\ srv' = IF wire = NotJson
              THEN [srv EXCEPT !.pc = "sent", !.reply = send_error("PARSE_ERROR")]
              ELSE [srv EXCEPT !.pc = "verify", !.message = wire]
    /\ UNCHANGED <<now, ticks, wire, signed, tampered, verdict, resigned>>
    /\ UNCHANGED <<connVars, execVars, linkVars, routeVars, engineVars, appVars>>

\* variant: the loop takes every decoded frame as valid
SrvVerifyTrusting ==
    /\ srv.pc = "verify"
    /\ srv' = [srv EXCEPT !.pc = "dispatch", !.is_valid = TRUE, !.verified_at = now]
    /\ UNCHANGED <<now, ticks, wire, signed, tampered, verdict, resigned>>
    /\ UNCHANGED <<connVars, execVars, linkVars, routeVars, engineVars, appVars>>

\* the frame is one the server's verify_message call has accepted; the
\* server's loop keeps in verdict the first call that accepted the frame
VerifiedBefore(message) ==
    /\ verdict # NoVerdict
    /\ verdict.message = message
    /\ verdict.result.ok

\* variant: the loop refuses an envelope it has verified before
SrvVerifyOnce ==
    /\ srv.pc = "verify"
    /\ LET r == IF VerifiedBefore(srv.message)
                THEN Invalid("Nonce already used")
                ELSE verify_message(MCP_PUBLIC_KEY, srv.message, TRUE, now)
       IN  /\ srv' = IF r.raised # ""
                     THEN [srv EXCEPT !.pc = "closed", !.error = r.raised]
                     ELSE [srv EXCEPT !.pc = "dispatch", !.is_valid = r.ok,
                                      !.error = r.error, !.verified_at = now,
                                      !.again = VerifiedBefore(srv.message)]
           /\ verdict' = IF r.ok /\ ~VerifiedBefore(srv.message)
                         THEN [key |-> MCP_PUBLIC_KEY, message |-> srv.message, check |-> TRUE,
                               at |-> now, result |-> r]
                         ELSE verdict
    /\ UNCHANGED <<now, ticks, wire, signed, tampered, resigned>>
    /\ UNCHANGED <<connVars, execVars, linkVars, routeVars, engineVars, appVars>>

\* is_valid, error = verify_message(MCP_PUBLIC_KEY, message).  The field
\* again is not the server's: it notes that the envelope verified now was
\* accepted before
SrvVerify ==
    /\ srv.pc = "verify"
    /\ LET r == verify_message(MCP_PUBLIC_KEY, srv.message, TRUE, now)
       IN  /\ srv' = IF r.raised # ""
                     THEN [srv EXCEPT !.pc = "closed", !.error = r.raised]
                     ELSE [srv EXCEPT !.pc = "dispatch", !.is_valid = r.ok,
                                      !.error = r.error, !.verified_at = now,
                                      !.again = VerifiedBefore(srv.message)]
           /\ verdict' = IF r.ok /\ ~VerifiedBefore(srv.message)
                         THEN [key |-> MCP_PUBLIC_KEY, message |-> srv.message, check |-> TRUE,
                               at |-> now, result |-> r]
                         ELSE verdict
    /\ UNCHANGED <<now, ticks, wire, signed, tampered, resigned>>
    /\ UNCHANGED <<connVars, execVars, linkVars, routeVars, engineVars, appVars>>

\* if not is_valid: send AUTH_FAILED and continue
SrvReject ==
    /\ srv.pc = "dispatch"
    /\ ~srv.is_valid
    /\ srv' = [srv EXCEPT !.pc = "sent", !.reply = send_error("AUTH_FAILED")]
    /\ UNCHANGED <<now, ticks, wire, signed, tampered, verdict, resigned>>
    /\ UNCHANGED <<connVars, execVars, linkVars, routeVars, engineVars, appVars>>

\* msg_type = message.get("type"); the if/elif chain; send_text(response)
SrvDispatch ==
    /\ srv.pc = "dispatch"
    /\ srv.is_valid
    /\ LET msg_type == srv.message.type
           payload == srv.message.payload
       IN  \/ /\ msg_type = "command"
              /\ \E o \in CommandOutcomes :
                    srv' = [srv EXCEPT !.pc = "sent", !.handler = "handle_command", !.outcome = o,
                                !.effect = handle_command(payload, o).effect,
                                !.reply = handle_command(payload, o).reply]
           \/ /\ msg_type = "upload"
              /\ \E o \in UploadOutcomes :
                    srv' = [srv EXCEPT !.pc = "sent", !.handler = "handle_upload", !.outcome = o,
                                !.effect = handle_upload(payload, o).effect,
                                !.reply = handle_upload(payload, o).reply]
           \/ /\ msg_type = "download"
              /\ \E o \in DownloadOutcomes :
                    srv' = [srv EXCEPT !.pc = "sent", !.handler = "handle_download", !.outcome = o,
                                !.effect = handle_download(payload, o).effect,
                                !.reply = handle_download(payload, o).reply]
           \/ /\ msg_type = "ping"
              /\ srv' = [srv EXCEPT !.pc = "sent", !.handler = "handle_ping",
                                !.effect = handle_ping.effect,
                                !.reply = handle_ping.reply]
           \/ /\ msg_type \notin {"command", "upload", "download", "ping"}
              /\ srv' = [srv EXCEPT !.pc = "sent", !.reply = send_error("UNKNOWN_TYPE")]
    /\ UNCHANGED <<now, ticks, wire, signed, tampered, verdict, resigned>>
    /\ UNCHANGED <<connVars, execVars, linkVars, routeVars, engineVars, appVars>>

\* while True: the next iteration starts with fresh locals
SrvLoop ==
    /\ srv.pc = "sent"
    /\ srv' = Idle
    /\ UNCHANGED <<now, ticks, wire, signed, tampered, verdict, resigned>>
    /\ UNCHANGED <<connVars, execVars, linkVars, routeVars, engineVars, appVars>>

\* the endpoint returned; the client connects again
SrvAccept ==
    /\ srv.pc = "closed"
    /\ srv' = Idle
    /\ UNCHANGED <<now, ticks, wire, signed, tampered, verdict, resigned>>
    /\ UNCHANGED <<connVars, execVars, linkVars, routeVars, engineVars, appVars>>

SignRequest == SignOf(Requests \cup Incomplete \cup OtherRequests)

NextServer ==
    \/ Tick \/ SignRequest \/ Tamper \/ DropField \/ Garble
    \/ SrvReceive \/ SrvVerify \/ SrvReject \/ SrvDispatch \/ SrvLoop \/ SrvAccept

SpecServer == Init /\ [][NextServer]_vars

(***************************************************************************)
(* The persistent connection: _send_and_wait and the central receive loop  *)
(* (specification SpecConn).  One asyncio event loop runs every coroutine, *)
(* so a step is the code between two awaits that can suspend;              *)
(* _pending_lock is never held across such an await and is never contended.*)
(***************************************************************************)
\* f"req_{self._request_id_counter}"
request_id(n) == "req_" \o NatToStr(n)

\* the decimal digits of n, most significant first
RECURSIVE Digits(_)
Digits(n) == IF n < 10 THEN <<n>> ELSE Append(Digits(n \div 10), n % 10)

\* Python's str ordering on two digit strings: first differing character,
\* a proper prefix sorts first
StrLess(a, b) ==
    \/ \E i \in 1..Len(a) :
          /\ i <= Len(b)
          /\ \A k \in 1..(i - 1) : a[k] = b[k]
          /\ a[i] < b[i]
    \/ /\ Len(a) < Len(b)
       /\ \A k \in 1..Len(a) : a[k] = b[k]

\* min(self._pending_requests.keys()) : the keys are the strings "req_N"
min_key(keys) ==
    CHOOSE n \in keys : \A m \in keys \ {n} : StrLess(Digits(n), Digits(m))

\* the keys, as the strings the dictionary holds
PendingKeys == {request_id(n) : n \in pending_requests}

KeyOf(rid) == CHOOSE n \in pending_requests : request_id(n) = rid

Frame(type, rid) == [type |-> type, request_id |-> rid]

\* msg_type.startswith("push_")
IsPush(type) == type \in {"push_notification", "push_command"}

Without(f, n) == [k \in (DOMAIN f) \ {n} |-> f[k]]

\* future.set_result(message) on the future of call n
SetResult(n, frame) ==
    IF n \in DOMAIN calls /\ calls[n].pc \in {"sending", "waiting"} /\ calls[n].type = ""
    THEN [calls EXCEPT ![n] = [pc |-> IF calls[n].pc = "sending" THEN "sending" ELSE "resolved",
                               request_id |-> frame.request_id, type |-> frame.type]]
    ELSE calls

\* connect(): the socket to the server is open and the receive loop runs
connect ==
    /\ ~connected
    /\ reconn.pc \notin {"trying", "connecting", "sleeping"}
    /\ {k \in {"script A", "script B"} : ops[k].pc = "inflight" /\ ops[k].via \notin sockets} = {}
    /\ opened < MaxSockets
    /\ client' = opened + 1
    /\ sockets' = sockets \cup {opened + 1}
    /\ opened' = opened + 1
    /\ connected' = TRUE
    /\ echoes' \in BOOLEAN
    /\ ping_task' = [pc |-> "sleeping", request_id |-> 0]
    /\ receive_task' = "running"
    /\ UNCHANGED <<request_id_counter, pending_requests, calls, returned, sent, inbound, pushed>>
    /\ UNCHANGED <<reconn, ops, mcp>>
    /\ UNCHANGED <<cryptoVars, execVars, routeVars, engineVars, appVars>>

\* _send_and_wait up to the send: take the next id, register the future
SendAndWaitBegin ==
    /\ connected
    /\ request_id_counter < (IF request_id_counter >= Served THEN Served ELSE 0) + MaxRequests
    /\ Cardinality(DOMAIN calls) < MaxInFlight
    /\ request_id_counter' = request_id_counter + 1
    /\ pending_requests' = pending_requests \cup {request_id_counter'}
    /\ calls' = [n \in DOMAIN calls \cup {request_id_counter'} |->
                    IF n \in DOMAIN calls THEN calls[n]
                    ELSE [pc |-> "sending", request_id |-> "", type |-> ""]]
    /\ UNCHANGED <<returned, sent, inbound, connected, echoes, pushed>>
    /\ UNCHANGED <<cryptoVars, execVars, linkVars, routeVars, engineVars, appVars>>

\* Served earlier _send_and_wait calls of this connection, each ended before
\* the next began: the counter alone keeps a trace of them
EarlierRequests ==
    /\ connected
    /\ request_id_counter = 0
    /\ calls = <<>>
    /\ request_id_counter' = Served
    /\ UNCHANGED <<pending_requests, calls, returned, sent, inbound, connected, echoes, pushed>>
    /\ UNCHANGED <<cryptoVars, execVars, linkVars, routeVars, engineVars, appVars>>

\* the task waiting in _send_and_wait is cancelled: CancelledError is not an
\* Exception, neither except clause runs, the entry stays in the table
WaiterCancelled ==
    /\ \E n \in DOMAIN calls :
          /\ calls[n].pc \in {"sending", "waiting"}
          /\ calls' = Without(calls, n)
          /\ returned' = [id |-> n, how |-> "cancelled", request_id |-> "", type |-> ""]
    /\ UNCHANGED <<request_id_counter, pending_requests, sent, inbound, connected, echoes, pushed>>
    /\ UNCHANGED <<cryptoVars, execVars, linkVars, routeVars, engineVars, appVars>>

\* await websocket.send(...) returns; the call now waits on its future
SendDone ==
    /\ \E n \in DOMAIN calls :
          /\ calls[n].pc = "sending"
          /\ calls' = [calls EXCEPT ![n].pc = IF calls[n].type = "" THEN "waiting" ELSE "resolved"]
          /\ sent' = sent \cup {n}
    /\ UNCHANGED <<request_id_counter, pending_requests, returned, inbound, connected, echoes, pushed>>
    /\ UNCHANGED <<cryptoVars, execVars, linkVars, routeVars, engineVars, appVars>>

\* await websocket.send(...) raises: the entry is removed and the call raises
SendFails ==
    /\ \E n \in DOMAIN calls :
          /\ calls[n].pc = "sending"
          /\ pending_requests' = pending_requests \ {n}
          /\ calls' = Without(calls, n)
          /\ returned' = [id |-> n, how |-> "error", request_id |-> "", type |-> ""]
    /\ UNCHANGED <<request_id_counter, sent, inbound, connected, echoes, pushed>>
    /\ UNCHANGED <<cryptoVars, execVars, linkVars, routeVars, engineVars, appVars>>

\* asyncio.wait_for(future, timeout) times out: pop the entry, raise
WaitTimesOut ==
    /\ \E n \in DOMAIN calls :
          /\ calls[n].pc = "waiting"
          /\ pending_requests' = pending_requests \ {n}
          /\ calls' = Without(calls, n)
          /\ returned' = [id |-> n, how |-> "timeout", request_id |-> "", type |-> ""]
    /\ UNCHANGED <<request_id_counter, sent, inbound, connected, echoes, pushed>>
    /\ UNCHANGED <<cryptoVars, execVars, linkVars, routeVars, engineVars, appVars>>

\* the future has a result: wait_for returns it and so does _send_and_wait
SendAndWaitReturns ==
    /\ \E n \in DOMAIN calls :
          /\ calls[n].pc = "resolved"
          /\ calls' = Without(calls, n)
          /\ returned' = [id |-> n, how |-> "response", request_id |-> calls[n].request_id, type |-> calls[n].type]
    /\ UNCHANGED <<request_id_counter, pending_requests, sent, inbound, connected, echoes, pushed>>
    /\ UNCHANGED <<cryptoVars, execVars, linkVars, routeVars, engineVars, appVars>>

\* the server answers a request it has received; a server that knows about
\* request_id copies it into the reply, the server of this repository does not
ServerReplies ==
    /\ Len(inbound) < MaxInbound
    /\ \E n \in sent :
          /\ sent' = sent \ {n}
          /\ inbound' = Append(inbound, Frame("response", IF echoes THEN request_id(n) ELSE ""))
    /\ UNCHANGED <<request_id_counter, pending_requests, calls, returned, connected, echoes, pushed>>
    /\ UNCHANGED <<cryptoVars, execVars, linkVars, routeVars, engineVars, appVars>>

\* the server sends a frame of its own accord
ServerPushes ==
    /\ connected
    /\ Len(inbound) < MaxInbound
    /\ inbound' = Append(inbound, Frame("push_notification", ""))
    /\ UNCHANGED <<request_id_counter, pending_requests, calls, returned, sent, connected, echoes, pushed>>
    /\ UNCHANGED <<cryptoVars, execVars, linkVars, routeVars, engineVars, appVars>>

\* one iteration of _receive_loop on the next frame
ReceiveLoop ==
    /\ inbound # <<>>
    /\ inbound' = Tail(inbound)
    /\ LET message == Head(inbound)
       IN  IF message.request_id # "" /\ message.request_id \in PendingKeys
           THEN /\ pending_requests' = pending_requests \ {KeyOf(message.request_id)}
                /\ calls' = SetResult(KeyOf(message.request_id), message)
                /\ UNCHANGED pushed
           ELSE IF IsPush(message.type)
           THEN /\ pushed' = message
                /\ UNCHANGED <<pending_requests, calls>>
           ELSE IF pending_requests # {}
           THEN /\ pending_requests' = pending_requests \ {min_key(pending_requests)}
                /\ calls' = SetResult(min_key(pending_requests), message)
                /\ UNCHANGED pushed
           ELSE UNCHANGED <<pending_requests, calls, pushed>>
    /\ UNCHANGED <<request_id_counter, returned, sent, connected, echoes>>
    /\ UNCHANGED <<cryptoVars, execVars, linkVars, routeVars, engineVars, appVars>>

NextConn ==
    \/ connect
    \/ EarlierRequests
    \/ SendAndWaitBegin \/ SendDone \/ SendFails \/ WaitTimesOut \/ SendAndWaitReturns
    \/ WaiterCancelled
    \/ ServerReplies \/ ServerPushes \/ ReceiveLoop

SpecConn == Init /\ [][NextConn]_vars

(***************************************************************************)
(* The remote script executor: execute_script, its two stream_output       *)
(* tasks, cancel_script and _kill_process (specification SpecExec).        *)
(* A step is the code between two awaits.  The script's process group is   *)
(* its leader (the shell started with start_new_session) and a descendant  *)
(* the script may start; both write to the two pipes.  A leader that has   *)
(* exited has been reaped by the event loop's child watcher, so            *)
(* os.getpgid(process.pid) raises ProcessLookupError from then on.         *)
(***************************************************************************)
Signals == {"SIGTERM", "SIGKILL"}

DefaultTimeout == 3600

\* the n-th line the script writes to a stream
Line(stream, n) == stream \o " line " \o NatToStr(n) \o "\n"

\* "".join(buffer)
RECURSIVE Join(_)
Join(buffer) == IF buffer = <<>> THEN "" ELSE Head(buffer) \o Join(Tail(buffer))

Buffer(stream) == IF stream = "stdout" THEN rs.stdout_buffer ELSE rs.stderr_buffer

Members(p) == (IF p.leader THEN {"leader"} ELSE {}) \cup (IF p.child THEN {"child"} ELSE {})

\* os.killpg(os.getpgid(process.pid), sig) inside try/except: the process
\* groups the call can leave behind.  Nothing is sent once the leader is
\* gone; SIGKILL ends every member; SIGTERM ends a member unless it traps it.
killpg(p, sig) ==
    IF ~p.leader THEN {p}
    ELSE IF sig = "SIGKILL" THEN {[p EXCEPT !.leader = FALSE, !.child = FALSE, !.returncode = -9]}
    ELSE {[p EXCEPT !.leader = l, !.child = c, !.returncode = IF l THEN p.returncode ELSE -15] :
             l \in BOOLEAN, c \in (IF p.child THEN BOOLEAN ELSE {FALSE})}

\* the killpg calls made so far: who made the call, the signal, the members
\* of the group alive at the call, and whether the call reached them
Sent(p, sig, by) ==
    Append(signals, [sig |-> sig, by |-> by, group |-> Members(p), delivered |-> p.leader])

\* variant: the cleanup removes the table entry and leaves the script file
finally_keeps_file ==
    /\ running_scripts' = running_scripts \ {ex.script_id}
    /\ UNCHANGED temp_files

\* the finally block of execute_script: running_scripts.pop(script_id, None)
\* and temp_file.unlink()
Finally ==
    /\ running_scripts' = running_scripts \ {ex.script_id}
    /\ temp_files' = temp_files \ {ex.script_id}

\* execute_script up to create_subprocess_exec: the script file is written
execute_script ==
    /\ ex.pc = "idle"
    /\ \E script_id \in ScriptIds :
          /\ ex' = [ex EXCEPT !.pc = "spawning", !.script_id = script_id]
          /\ temp_files' = temp_files \cup {script_id}
    /\ UNCHANGED <<running_scripts, rs, readers, proc, signals, cn, refusal>>
    /\ UNCHANGED <<cryptoVars, connVars, linkVars, routeVars, engineVars, appVars>>

\* create_subprocess_exec returns: the script is registered as Running and
\* the two stream readers start
Spawned ==
    /\ ex.pc = "spawning"
    /\ ex' = [ex EXCEPT !.pc = "streaming"]
    /\ proc' = [NoProcess EXCEPT !.leader = TRUE]
    /\ rs' = [NoScript EXCEPT !.state = "running"]
    /\ running_scripts' = running_scripts \cup {ex.script_id}
    /\ readers' = [s \in StreamNames |-> "readline"]
    /\ UNCHANGED <<signals, temp_files, cn, refusal>>
    /\ UNCHANGED <<cryptoVars, connVars, linkVars, routeVars, engineVars, appVars>>

\* create_subprocess_exec raises: the finally block runs, the call raises
SpawnFails ==
    /\ ex.pc = "spawning"
    /\ ex' = [ex EXCEPT !.pc = "raised"]
    /\ Finally
    /\ UNCHANGED <<rs, readers, proc, signals, cn, refusal>>
    /\ UNCHANGED <<cryptoVars, connVars, linkVars, routeVars, engineVars, appVars>>

\* the script: a member of the group writes a line to a pipe
ScriptWrites ==
    /\ Members(proc) # {}
    /\ \E s \in StreamNames :
          /\ proc.written[s] < MaxLines
          /\ proc' = [proc EXCEPT !.written[s] = @ + 1, !.pipe[s] = @ + 1]
    /\ UNCHANGED <<running_scripts, ex, rs, readers, signals, temp_files, cn, refusal>>
    /\ UNCHANGED <<cryptoVars, connVars, linkVars, routeVars, engineVars, appVars>>

\* the script: the shell starts a descendant that inherits both pipes
ScriptForks ==
    /\ proc.leader /\ ~proc.child
    /\ proc' = [proc EXCEPT !.child = TRUE]
    /\ UNCHANGED <<running_scripts, ex, rs, readers, signals, temp_files, cn, refusal>>
    /\ UNCHANGED <<cryptoVars, connVars, linkVars, routeVars, engineVars, appVars>>

\* the script: the shell exits of its own accord
ScriptExits ==
    /\ proc.leader
    /\ \E rc \in {0, 1} : proc' = [proc EXCEPT !.leader = FALSE, !.returncode = rc]
    /\ UNCHANGED <<running_scripts, ex, rs, readers, signals, temp_files, cn, refusal>>
    /\ UNCHANGED <<cryptoVars, connVars, linkVars, routeVars, engineVars, appVars>>

\* the script: the descendant exits of its own accord
ChildExits ==
    /\ proc.child
    /\ proc' = [proc EXCEPT !.child = FALSE]
    /\ UNCHANGED <<running_scripts, ex, rs, readers, signals, temp_files, cn, refusal>>
    /\ UNCHANGED <<cryptoVars, connVars, linkVars, routeVars, engineVars, appVars>>

\* stream_output: readline returns a line; it is numbered, buffered and
\* handed to on_output
ReadLine ==
    /\ \E s \in StreamNames :
          /\ readers[s] = "readline"
          /\ proc.pipe[s] > 0
          /\ proc' = [proc EXCEPT !.pipe[s] = @ - 1]
          /\ rs' = IF s = "stdout"
                   THEN [rs EXCEPT !.sequence = @ + 1, !.stdout_buffer = Append(@, Line(s, Len(@) + 1))]
                   ELSE [rs EXCEPT !.sequence = @ + 1, !.stderr_buffer = Append(@, Line(s, Len(@) + 1))]
          /\ readers' = [readers EXCEPT ![s] = "on_output"]
    /\ UNCHANGED <<running_scripts, ex, signals, temp_files, cn, refusal>>
    /\ UNCHANGED <<cryptoVars, connVars, linkVars, routeVars, engineVars, appVars>>

\* stream_output: on_output returns, the reader goes back to readline
OutputDelivered ==
    /\ \E s \in StreamNames :
          /\ readers[s] = "on_output"
          /\ readers' = [readers EXCEPT ![s] = "readline"]
    /\ UNCHANGED <<running_scripts, ex, rs, proc, signals, temp_files, cn, refusal>>
    /\ UNCHANGED <<cryptoVars, connVars, linkVars, routeVars, engineVars, appVars>>

\* stream_output: on_output raises.  gather passes the first exception to
\* execute_script, whose finally block runs; the other reader and the
\* process are left as they are
OutputRaises ==
    /\ \E s \in StreamNames :
          /\ readers[s] = "on_output"
          /\ readers' = [readers EXCEPT ![s] = "failed"]
    /\ IF ex.pc = "streaming"
       THEN /\ ex' = [ex EXCEPT !.pc = "raised"]
            /\ Finally
       ELSE UNCHANGED <<ex, running_scripts, temp_files>>
    /\ UNCHANGED <<rs, proc, signals, cn, refusal>>
    /\ UNCHANGED <<cryptoVars, connVars, linkVars, routeVars, engineVars, appVars>>

\* stream_output: readline returns b"" once the pipe is empty and no
\* member of the group holds its write end
EndOfStream ==
    /\ \E s \in StreamNames :
          /\ readers[s] = "readline"
          /\ proc.pipe[s] = 0
          /\ Members(proc) = {}
          /\ readers' = [readers EXCEPT ![s] = "eof"]
    /\ UNCHANGED <<running_scripts, ex, rs, proc, signals, temp_files, cn, refusal>>
    /\ UNCHANGED <<cryptoVars, connVars, linkVars, routeVars, engineVars, appVars>>

\* wait_for(gather(...)) returns: both readers are done
GatherReturns ==
    /\ ex.pc = "streaming"
    /\ \A s \in StreamNames : readers[s] = "eof"
    /\ ex' = [ex EXCEPT !.pc = "waiting"]
    /\ UNCHANGED <<running_scripts, rs, readers, proc, signals, temp_files, cn, refusal>>
    /\ UNCHANGED <<cryptoVars, connVars, linkVars, routeVars, engineVars, appVars>>

\* process.wait() returns: the call records the exit status, marks the
\* script Completed, runs its finally block and returns
ProcessWaited ==
    /\ ex.pc = "waiting"
    /\ ~proc.leader
    /\ ex' = [ex EXCEPT !.pc = "returned", !.returncode = proc.returncode, !.error_message = PyNone]
    /\ rs' = [rs EXCEPT !.state = "completed"]
    /\ Finally
    /\ UNCHANGED <<readers, proc, signals, cn, refusal>>
    /\ UNCHANGED <<cryptoVars, connVars, linkVars, routeVars, engineVars, appVars>>

\* a reader that wait_for cancels stops where it is
Cancelled(reader) == IF reader \in {"readline", "on_output"} THEN "cancelled" ELSE reader

\* wait_for(gather(...), timeout) raises TimeoutError: the readers are
\* cancelled and _kill_process sends SIGTERM, then waits for the process
TimesOut ==
    /\ ex.pc = "streaming"
    /\ ex' = [ex EXCEPT !.pc = "grace"]
    /\ readers' = [s \in StreamNames |-> Cancelled(readers[s])]
    /\ proc' \in killpg(proc, "SIGTERM")
    /\ signals' = Sent(proc, "SIGTERM", "timeout")
    /\ UNCHANGED <<running_scripts, rs, temp_files, cn, refusal>>
    /\ UNCHANGED <<cryptoVars, connVars, linkVars, routeVars, engineVars, appVars>>

\* execute_script after _kill_process: the timeout result, the finally block
TimedOutResult ==
    /\ ex' = [ex EXCEPT !.pc = "returned", !.returncode = -9,
                        !.error_message = "Script timed out after " \o NatToStr(DefaultTimeout) \o "s"]
    /\ rs' = [rs EXCEPT !.state = "failed"]
    /\ Finally

\* _kill_process on timeout: the process exits within the five seconds
TimeoutGraceExit ==
    /\ ex.pc = "grace"
    /\ ~proc.leader
    /\ TimedOutResult
    /\ UNCHANGED <<readers, proc, signals, cn, refusal>>
    /\ UNCHANGED <<cryptoVars, connVars, linkVars, routeVars, engineVars, appVars>>

\* _kill_process on timeout: the five seconds pass, SIGKILL is sent
TimeoutGraceExpires ==
    /\ ex.pc = "grace"
    /\ proc.leader
    /\ proc' \in killpg(proc, "SIGKILL")
    /\ signals' = Sent(proc, "SIGKILL", "timeout")
    /\ TimedOutResult
    /\ UNCHANGED <<readers, cn, refusal>>
    /\ UNCHANGED <<cryptoVars, connVars, linkVars, routeVars, engineVars, appVars>>

\* the task awaiting execute_script is cancelled: CancelledError is raised at
\* the await the call is suspended in, passes the except clauses, and the
\* finally block runs; nothing is sent to the process
CallerCancelled ==
    /\ ex.pc \in {"spawning", "streaming", "waiting", "grace"}
    /\ ex' = [ex EXCEPT !.pc = "raised"]
    /\ readers' = [s \in StreamNames |-> IF ex.pc = "streaming" THEN Cancelled(readers[s]) ELSE readers[s]]
    /\ Finally
    /\ UNCHANGED <<rs, proc, signals, cn, refusal>>
    /\ UNCHANGED <<cryptoVars, connVars, linkVars, routeVars, engineVars, appVars>>

\* the local variable running of cancel_script: what the table held
Found(script_id) == IF script_id \in running_scripts THEN rs.state ELSE "absent"

\* variant: cancel_script without the test of the script's state
cancel_script_any_state ==
    /\ \E script_id \in ScriptIds, sig \in Signals :
          IF script_id \notin running_scripts
          THEN /\ refusal' = [NoCancel EXCEPT !.pc = "returned", !.script_id = script_id, !.found = Found(script_id)]
               /\ UNCHANGED <<rs, proc, signals, cn>>
          ELSE /\ rs' = [rs EXCEPT !.state = "cancelled"]
               /\ proc' \in killpg(proc, sig)
               /\ signals' = Sent(proc, sig, "cancel")
               /\ cn' = [NoCancel EXCEPT !.pc = "grace", !.script_id = script_id, !.sig = sig, !.found = Found(script_id)]
               /\ UNCHANGED refusal
    /\ UNCHANGED <<running_scripts, ex, readers, temp_files>>
    /\ UNCHANGED <<cryptoVars, connVars, linkVars, routeVars, engineVars, appVars>>

\* cancel_script up to the wait in _kill_process: a script that is not in
\* the table or not Running is refused; otherwise it is marked Cancelled and
\* its group is sent sig
cancel_script ==
    /\ \E script_id \in ScriptIds, sig \in Signals :
          IF script_id \notin running_scripts \/ rs.state # "running"
          THEN /\ refusal' = [NoCancel EXCEPT !.pc = "returned", !.script_id = script_id, !.found = Found(script_id)]
               /\ UNCHANGED <<rs, proc, signals, cn>>
          ELSE /\ rs' = [rs EXCEPT !.state = "cancelled"]
               /\ proc' \in killpg(proc, sig)
               /\ signals' = Sent(proc, sig, "cancel")
               /\ cn' = [NoCancel EXCEPT !.pc = "grace", !.script_id = script_id, !.sig = sig, !.found = Found(script_id)]
               /\ UNCHANGED refusal
    /\ UNCHANGED <<running_scripts, ex, readers, temp_files>>
    /\ UNCHANGED <<cryptoVars, connVars, linkVars, routeVars, engineVars, appVars>>

\* cancel_script after _kill_process: the buffers as they are now
CancelResult ==
    cn' = [cn EXCEPT !.pc = "returned", !.was_running = TRUE,
                     !.partial_stdout = Join(rs.stdout_buffer), !.partial_stderr = Join(rs.stderr_buffer)]

\* _kill_process in cancel_script: the process exits within the five seconds
CancelGraceExit ==
    /\ cn.pc = "grace"
    /\ ~proc.leader
    /\ CancelResult
    /\ UNCHANGED <<running_scripts, ex, rs, readers, proc, signals, temp_files, refusal>>
    /\ UNCHANGED <<cryptoVars, connVars, linkVars, routeVars, engineVars, appVars>>

\* _kill_process in cancel_script: the five seconds pass, SIGKILL is sent
CancelGraceExpires ==
    /\ cn.pc = "grace"
    /\ proc.leader
    /\ proc' \in killpg(proc, "SIGKILL")
    /\ signals' = Sent(proc, "SIGKILL", "cancel")
    /\ CancelResult
    /\ UNCHANGED <<running_scripts, ex, rs, readers, temp_files, refusal>>
    /\ UNCHANGED <<cryptoVars, connVars, linkVars, routeVars, engineVars, appVars>>

NextExec ==
    \/ execute_script \/ Spawned \/ SpawnFails
    \/ ScriptWrites \/ ScriptForks \/ ScriptExits \/ ChildExits
    \/ ReadLine \/ OutputDelivered \/ OutputRaises \/ EndOfStream
    \/ GatherReturns \/ ProcessWaited
    \/ TimesOut \/ TimeoutGraceExit \/ TimeoutGraceExpires \/ CallerCancelled
    \/ cancel_script \/ CancelGraceExit \/ CancelGraceExpires

SpecExec == Init /\ [][NextExec]_vars

(***************************************************************************)
(* The life of a PersistentRemoteConnection: connect, the ping loop, the   *)
(* receive task, ensure_connected and _reconnect, operations that pass     *)
(* the gate, and disconnect (specification SpecLink).  A socket is a       *)
(* number; `sockets` holds those still open.                               *)
(***************************************************************************)
connRest == <<calls, returned, sent, inbound, echoes, pushed>>

\* self._lock is free: no connect or _reconnect is under way
LockFree == reconn.pc \notin {"trying", "connecting", "sleeping"}

\* _start_ping_loop: the old task is cancelled, a new one sleeps first
\* (a _send_and_wait the old task was waiting in gets CancelledError)
StartPingLoop == ping_task' = [pc |-> "sleeping", request_id |-> 0]

\* an execute_script call is reading the socket
InFlight == {k \in Scripts : ops[k].pc = "inflight"}

\* scripts in flight whose socket has been closed: their recv has raised
\* ConnectionClosed and their task is ready to run, which it does before
\* any network step begun later completes
Stale == {k \in InFlight : ops[k].via \notin sockets}

\* what an operation does once ensure_connected returned the client; task
\* is the receive task and sock the client's socket as the gate left them
Proceed(k, task, sock) ==
    IF k = "command"
    THEN \* execute_command -> _send_and_wait: take an id, register the future
         /\ request_id_counter' = request_id_counter + 1
         /\ pending_requests' = pending_requests \cup {request_id_counter + 1}
         /\ ops' = [ops EXCEPT ![k] = [pc |-> "waiting", request_id |-> request_id_counter + 1, via |-> 0]]
         /\ receive_task' = task
    ELSE \* execute_script: cancel the receive task, then talk on the socket
         /\ ops' = [ops EXCEPT ![k] = [pc |-> "inflight", request_id |-> 0, via |-> sock]]
         /\ receive_task' = IF task = "running" THEN "ended" ELSE task
         /\ UNCHANGED <<request_id_counter, pending_requests>>

\* room left in the bounded id space for the operation k
InBounds(k) == k = "command" => request_id_counter < MaxRequests

\* PersistentRemoteConnection.connect fails: RemoteClient.connect raised
ConnectFails ==
    /\ ~connected
    /\ LockFree
    /\ Stale = {}
    /\ client' = 0
    /\ UNCHANGED <<sockets, opened, receive_task, ping_task, reconn, ops, mcp>>
    /\ UNCHANGED <<cryptoVars, connVars, execVars, routeVars, engineVars, appVars>>

\* the peer or the network closes the client's socket
PeerCloses ==
    /\ client \in sockets
    /\ sockets' = sockets \ {client}
    /\ UNCHANGED <<client, opened, receive_task, ping_task, reconn, ops, mcp>>
    /\ UNCHANGED <<cryptoVars, connVars, execVars, routeVars, engineVars, appVars>>

\* _receive_loop: recv raises ConnectionClosed
ReceiveClosed ==
    /\ receive_task = "running"
    /\ connected
    /\ client # 0
    /\ client \notin sockets
    /\ connected' = FALSE
    /\ receive_task' = "ended"
    /\ UNCHANGED <<request_id_counter, pending_requests, connRest>>
    /\ UNCHANGED <<client, sockets, opened, ping_task, reconn, ops, mcp>>
    /\ UNCHANGED <<cryptoVars, execVars, routeVars, engineVars, appVars>>

\* _receive_loop: the while condition finds _connected false
ReceiveStops ==
    /\ receive_task = "running"
    /\ ~connected
    /\ receive_task' = "ended"
    /\ UNCHANGED <<client, sockets, opened, ping_task, reconn, ops, mcp>>
    /\ UNCHANGED <<cryptoVars, connVars, execVars, routeVars, engineVars, appVars>>

\* _ping_loop wakes and sends a ping through _send_and_wait
PingSends ==
    /\ ping_task.pc = "sleeping"
    /\ connected
    /\ client # 0
    /\ request_id_counter < MaxRequests
    /\ request_id_counter' = request_id_counter + 1
    /\ pending_requests' = pending_requests \cup {request_id_counter + 1}
    /\ ping_task' = [pc |-> "pinging", request_id |-> request_id_counter + 1]
    /\ UNCHANGED <<connected, connRest>>
    /\ UNCHANGED <<client, sockets, opened, receive_task, reconn, ops, mcp>>
    /\ UNCHANGED <<cryptoVars, execVars, routeVars, engineVars, appVars>>

\* _ping_loop wakes with _connected false: the loop ends
PingSkips ==
    /\ ping_task.pc = "sleeping"
    /\ ~connected
    /\ ping_task' = [pc |-> "ended", request_id |-> 0]
    /\ UNCHANGED <<client, sockets, opened, receive_task, reconn, ops, mcp>>
    /\ UNCHANGED <<cryptoVars, connVars, execVars, routeVars, engineVars, appVars>>

\* the pong arrives in time: the receive loop resolves the ping's future
PingPong ==
    /\ ping_task.pc = "pinging"
    /\ receive_task = "running"
    /\ client \in sockets
    /\ pending_requests' = pending_requests \ {ping_task.request_id}
    /\ ping_task' = [pc |-> "sleeping", request_id |-> 0]
    /\ UNCHANGED <<request_id_counter, connected, connRest>>
    /\ UNCHANGED <<client, sockets, opened, receive_task, reconn, ops, mcp>>
    /\ UNCHANGED <<cryptoVars, execVars, routeVars, engineVars, appVars>>

\* no pong within the timeout: _send_and_wait pops its entry and raises
\* TimeoutError, the loop clears the flag and ends
PingTimesOut ==
    /\ ping_task.pc = "pinging"
    /\ pending_requests' = pending_requests \ {ping_task.request_id}
    /\ connected' = FALSE
    /\ ping_task' = [pc |-> "timedout", request_id |-> 0]
    /\ UNCHANGED <<request_id_counter, connRest>>
    /\ UNCHANGED <<client, sockets, opened, receive_task, reconn, ops, mcp>>
    /\ UNCHANGED <<cryptoVars, execVars, routeVars, engineVars, appVars>>

\* variant: the gate looks at the client only, not at the flag
ensure_connected_ignores_flag(k) ==
    /\ ops[k].pc = "idle"
    /\ LockFree
    /\ InBounds(k)
    /\ IF client # 0
       THEN /\ Proceed(k, receive_task, client)
            /\ UNCHANGED reconn
       ELSE /\ reconn' = [pc |-> "trying", attempt |-> 0, delay |-> reconnect_delay, slept |-> <<>>, owner |-> k]
            /\ ops' = [ops EXCEPT ![k] = [pc |-> "reconnecting", request_id |-> 0, via |-> 0]]
            /\ UNCHANGED <<request_id_counter, pending_requests, receive_task>>
    /\ UNCHANGED <<connected, connRest>>
    /\ UNCHANGED <<client, sockets, opened, ping_task, mcp>>
    /\ UNCHANGED <<cryptoVars, execVars, routeVars, engineVars, appVars>>

\* an operation calls ensure_connected: with a client, the flag set and a
\* socket it goes on at once, otherwise it enters _reconnect
ensure_connected(k) ==
    /\ ops[k].pc = "idle"
    /\ LockFree
    /\ InBounds(k)
    /\ IF client # 0 /\ connected
       THEN /\ Proceed(k, receive_task, client)
            /\ UNCHANGED reconn
       ELSE /\ reconn' = [pc |-> "trying", attempt |-> 0, delay |-> reconnect_delay, slept |-> <<>>, owner |-> k]
            /\ ops' = [ops EXCEPT ![k] = [pc |-> "reconnecting", request_id |-> 0, via |-> 0]]
            /\ UNCHANGED <<request_id_counter, pending_requests, receive_task>>
    /\ UNCHANGED <<connected, connRest>>
    /\ UNCHANGED <<client, sockets, opened, ping_task, mcp>>
    /\ UNCHANGED <<cryptoVars, execVars, routeVars, engineVars, appVars>>

\* an attempt of _reconnect begins: the old client, if any, is disconnected
\* and a new RemoteClient takes its place
ReconnectCloses ==
    /\ reconn.pc = "trying"
    /\ sockets' = sockets \ {client}
    /\ client' = 0
    /\ reconn' = [reconn EXCEPT !.pc = "connecting"]
    /\ UNCHANGED <<opened, receive_task, ping_task, ops, mcp>>
    /\ UNCHANGED <<cryptoVars, connVars, execVars, routeVars, engineVars, appVars>>

\* variant: a successful attempt also starts the ids again from zero
ReconnectSucceedsResetting ==
    /\ reconn.pc = "connecting"
    /\ Stale = {}
    /\ opened < MaxSockets
    /\ sockets' = sockets \cup {opened + 1}
    /\ client' = opened + 1
    /\ opened' = opened + 1
    /\ connected' = TRUE
    /\ StartPingLoop
    /\ reconn' = [reconn EXCEPT !.pc = "done"]
    /\ IF reconn.owner = "command"
       THEN /\ request_id_counter' = 1
            /\ pending_requests' = pending_requests \cup {1}
            /\ ops' = [ops EXCEPT !["command"] = [pc |-> "waiting", request_id |-> 1, via |-> 0]]
            /\ receive_task' = "running"
       ELSE /\ request_id_counter' = 0
            /\ ops' = [ops EXCEPT ![reconn.owner] = [pc |-> "inflight", request_id |-> 0, via |-> opened + 1]]
            /\ receive_task' = "ended"
            /\ UNCHANGED pending_requests
    /\ UNCHANGED connRest
    /\ UNCHANGED mcp
    /\ UNCHANGED <<cryptoVars, execVars, routeVars, engineVars, appVars>>

\* one attempt of _reconnect succeeds: the new client connects, the flag is
\* set, both loops are started, and the operation that called
\* ensure_connected goes on
ReconnectSucceeds ==
    /\ reconn.pc = "connecting"
    /\ Stale = {}
    /\ opened < MaxSockets
    /\ sockets' = sockets \cup {opened + 1}
    /\ client' = opened + 1
    /\ opened' = opened + 1
    /\ connected' = TRUE
    /\ StartPingLoop
    /\ reconn' = [reconn EXCEPT !.pc = "done"]
    /\ Proceed(reconn.owner, "running", opened + 1)
    /\ UNCHANGED connRest
    /\ UNCHANGED mcp
    /\ UNCHANGED <<cryptoVars, execVars, routeVars, engineVars, appVars>>

\* variant: a failed attempt always sleeps and tries again
ReconnectAttemptFailsForever ==
    /\ reconn.pc = "connecting"
    /\ Stale = {}
    /\ reconn' = [reconn EXCEPT !.pc = "sleeping", !.slept = Append(@, reconn.delay)]
    /\ UNCHANGED <<client, sockets, opened, receive_task, ping_task, ops, mcp>>
    /\ UNCHANGED <<cryptoVars, connVars, execVars, routeVars, engineVars, appVars>>

\* one attempt of _reconnect fails: the new client's connect raises; before
\* the last attempt the call sleeps `delay`, after it the loop is over and
\* ConnectionError is raised to the operation
ReconnectAttemptFails ==
    /\ reconn.pc = "connecting"
    /\ Stale = {}
    /\ IF reconn.attempt < max_reconnect_attempts - 1
       THEN /\ reconn' = [reconn EXCEPT !.pc = "sleeping", !.slept = Append(@, reconn.delay)]
            /\ UNCHANGED ops
       ELSE /\ reconn' = [reconn EXCEPT !.pc = "raised"]
            /\ ops' = [ops EXCEPT ![reconn.owner] = NoOp]
    /\ UNCHANGED <<client, sockets, opened, receive_task, ping_task, mcp>>
    /\ UNCHANGED <<cryptoVars, connVars, execVars, routeVars, engineVars, appVars>>

\* the sleep is over: delay *= 2 and the next attempt begins
ReconnectWakes ==
    /\ reconn.pc = "sleeping"
    /\ reconn' = [reconn EXCEPT !.pc = "trying", !.delay = 2 * @, !.attempt = @ + 1]
    /\ UNCHANGED <<client, sockets, opened, receive_task, ping_task, ops, mcp>>
    /\ UNCHANGED <<cryptoVars, connVars, execVars, routeVars, engineVars, appVars>>

\* execute_command's _send_and_wait ends (response, timeout or send error):
\* its entry is popped
CommandEnds ==
    /\ ops["command"].pc = "waiting"
    /\ pending_requests' = pending_requests \ {ops["command"].request_id}
    /\ ops' = [ops EXCEPT !["command"] = NoOp]
    /\ UNCHANGED <<request_id_counter, connected, connRest>>
    /\ UNCHANGED <<client, sockets, opened, receive_task, ping_task, reconn, mcp>>
    /\ UNCHANGED <<cryptoVars, execVars, routeVars, engineVars, appVars>>

\* execute_script leaves its try block (completion frame, error frame,
\* receive timeout, any exception): finally starts a receive loop
ExecuteScriptExits(k) ==
    /\ k \in InFlight
    /\ ops' = [ops EXCEPT ![k] = NoOp]
    /\ receive_task' = "running"
    /\ UNCHANGED <<client, sockets, opened, ping_task, reconn, mcp>>
    /\ UNCHANGED <<cryptoVars, connVars, execVars, routeVars, engineVars, appVars>>

\* PersistentRemoteConnection.disconnect
disconnect ==
    /\ client # 0
    /\ LockFree
    /\ connected' = FALSE
    /\ receive_task' = IF receive_task = "none" THEN "none" ELSE "ended"
    /\ ping_task' = IF ping_task.pc = "none" THEN ping_task ELSE [pc |-> "ended", request_id |-> 0]
    /\ pending_requests' = {}
    /\ sockets' = sockets \ {client}
    /\ client' = 0
    /\ UNCHANGED <<request_id_counter, connRest>>
    /\ UNCHANGED <<opened, reconn, ops, mcp>>
    /\ UNCHANGED <<cryptoVars, execVars, routeVars, engineVars, appVars>>

NextLink ==
    \/ connect \/ ConnectFails \/ disconnect
    \/ PeerCloses \/ ReceiveClosed \/ ReceiveStops
    \/ PingSends \/ PingSkips \/ PingPong \/ PingTimesOut
    \/ \E k \in OpKinds : ensure_connected(k)
    \/ ReconnectCloses \/ ReconnectSucceeds \/ ReconnectAttemptFails \/ ReconnectWakes
    \/ CommandEnds
    \/ \E k \in Scripts : ExecuteScriptExits(k)

SpecLink == Init /\ [][NextLink]_vars

(***************************************************************************)
(* The MCP server's RemoteConnectionManager: connect, disconnect,          *)
(* ensure_connected, ping and health_check (specification SpecMcp).        *)
(* mcp.open holds the sockets this manager opened that are still open.     *)
(***************************************************************************)
\* RemoteConnectionManager.is_connected
is_connected == mcp.connected /\ mcp.websocket # 0

\* what connect leaves in _current_cwd: the answer to its "pwd", "~" when
\* the exchange raised, the old value when the command did not succeed
PwdOutcomes == {"/srv", "~", mcp.current_cwd}

\* connect (also as called by ensure_connected): unless the flag is set
\* and there is a socket, open one and store it in self._websocket
McpConnect ==
    /\ ~is_connected
    /\ mcp.pc = "idle"
    /\ mcp.opened < MaxManagerSockets
    /\ \E cwd \in PwdOutcomes :
       mcp' = [mcp EXCEPT !.websocket = mcp.opened + 1,
                          !.open = @ \cup {mcp.opened + 1},
                          !.opened = @ + 1,
                          !.connected = TRUE,
                          !.current_cwd = cwd]
    /\ UNCHANGED <<client, sockets, opened, receive_task, ping_task, reconn, ops>>
    /\ UNCHANGED <<cryptoVars, connVars, execVars, routeVars, engineVars, appVars>>

\* connect raises ConnectionFailedError: no socket, flag cleared
McpConnectFails ==
    /\ ~is_connected
    /\ mcp.pc = "idle"
    /\ mcp' = [mcp EXCEPT !.websocket = 0, !.connected = FALSE]
    /\ UNCHANGED <<client, sockets, opened, receive_task, ping_task, reconn, ops>>
    /\ UNCHANGED <<cryptoVars, connVars, execVars, routeVars, engineVars, appVars>>

\* disconnect: close the socket if there is one, forget it
McpDisconnect ==
    /\ mcp.pc = "idle"
    /\ mcp' = [mcp EXCEPT !.open = @ \ {mcp.websocket}, !.websocket = 0, !.connected = FALSE]
    /\ UNCHANGED <<client, sockets, opened, receive_task, ping_task, reconn, ops>>
    /\ UNCHANGED <<cryptoVars, connVars, execVars, routeVars, engineVars, appVars>>

\* the peer or the network closes the manager's socket
McpPeerCloses ==
    /\ mcp.websocket \in mcp.open
    /\ mcp' = [mcp EXCEPT !.open = @ \ {mcp.websocket}]
    /\ UNCHANGED <<client, sockets, opened, receive_task, ping_task, reconn, ops>>
    /\ UNCHANGED <<cryptoVars, connVars, execVars, routeVars, engineVars, appVars>>

\* ping (alone or from health_check) past ensure_connected: the ping is sent
McpPing ==
    /\ is_connected
    /\ mcp.pc = "idle"
    /\ mcp' = [mcp EXCEPT !.pc = "pinging"]
    /\ UNCHANGED <<client, sockets, opened, receive_task, ping_task, reconn, ops>>
    /\ UNCHANGED <<cryptoVars, connVars, execVars, routeVars, engineVars, appVars>>

\* execute_command past ensure_connected: the command is sent
McpCommand ==
    /\ is_connected
    /\ mcp.pc = "idle"
    /\ mcp' = [mcp EXCEPT !.pc = "commanding"]
    /\ UNCHANGED <<client, sockets, opened, receive_task, ping_task, reconn, ops>>
    /\ UNCHANGED <<cryptoVars, connVars, execVars, routeVars, engineVars, appVars>>

\* execute_command returns the response or raises; the flag is not touched
McpCommandEnds ==
    /\ mcp.pc = "commanding"
    /\ mcp' = [mcp EXCEPT !.pc = "idle"]
    /\ UNCHANGED <<client, sockets, opened, receive_task, ping_task, reconn, ops>>
    /\ UNCHANGED <<cryptoVars, connVars, execVars, routeVars, engineVars, appVars>>

\* the pong arrives within the timeout
McpPong ==
    /\ mcp.pc = "pinging"
    /\ mcp.websocket \in mcp.open
    /\ mcp' = [mcp EXCEPT !.pc = "idle"]
    /\ UNCHANGED <<client, sockets, opened, receive_task, ping_task, reconn, ops>>
    /\ UNCHANGED <<cryptoVars, connVars, execVars, routeVars, engineVars, appVars>>

\* no pong within the timeout, or send/recv raised: the flag is cleared
McpPingFails ==
    /\ mcp.pc = "pinging"
    /\ mcp' = [mcp EXCEPT !.pc = "idle", !.connected = FALSE]
    /\ UNCHANGED <<client, sockets, opened, receive_task, ping_task, reconn, ops>>
    /\ UNCHANGED <<cryptoVars, connVars, execVars, routeVars, engineVars, appVars>>

NextMcp ==
    \/ McpConnect \/ McpConnectFails \/ McpDisconnect \/ McpPeerCloses
    \/ McpPing \/ McpPong \/ McpPingFails
    \/ McpCommand \/ McpCommandEnds

SpecMcp == Init /\ [][NextMcp]_vars

(***************************************************************************)
(* MessageRouter.route on the receive loop's task and                      *)
(* RemoteSession.process_notifications on the main thread (specification   *)
(* SpecRouter).  Handlers are registered for HandledType; a message is a   *)
(* number; an entry is <<message, handler>>.                               *)
(***************************************************************************)
Range(f) == {f[i] : i \in DOMAIN f}

\* the entries route puts on the queue for message m, in handler order
Entries(m, handlers) == [i \in 1..Len(handlers) |-> <<m, handlers[i]>>]

\* register_async / register_sync: append to the list of the type
register_async(h) ==
    /\ h \notin Range(router.async)
    /\ router' = [router EXCEPT !.async = Append(@, h)]
    /\ UNCHANGED <<notification_queue, rt, pn, pushes, awaited, enqueued, called, routed>>
    /\ UNCHANGED <<cryptoVars, connVars, execVars, linkVars, engineVars, appVars>>

register_sync(h) ==
    /\ h \notin Range(router.sync)
    /\ router' = [router EXCEPT !.sync = Append(@, h)]
    /\ UNCHANGED <<notification_queue, rt, pn, pushes, awaited, enqueued, called, routed>>
    /\ UNCHANGED <<cryptoVars, connVars, execVars, linkVars, engineVars, appVars>>

\* the end of route: every sync handler of the snapshot is put on the queue
RouteEnds(m, async, sync) ==
    /\ notification_queue' = notification_queue \o Entries(m, sync)
    /\ enqueued' = enqueued \o Entries(m, sync)
    /\ rt' = NoRoute
    /\ routed' = Append(routed, [msg |-> m, async |-> async, sync |-> sync])

\* the receive loop reads a push frame and calls route: the handler lists
\* are copied under the lock and the first async handler is awaited; with
\* no async handler the call runs to its end at once
RouteBegin ==
    /\ rt.pc = "idle"
    /\ pushes < MaxPushes
    /\ pushes' = pushes + 1
    /\ \E t \in PushTypes :
          LET async == IF t = HandledType THEN router.async ELSE <<>>
              sync == IF t = HandledType THEN router.sync ELSE <<>>
          IN  IF async = <<>>
              THEN /\ RouteEnds(pushes + 1, async, sync)
                   /\ UNCHANGED awaited
              ELSE /\ rt' = [pc |-> "awaiting", msg |-> pushes + 1, async |-> async, sync |-> sync, at |-> 1]
                   /\ awaited' = Append(awaited, <<pushes + 1, async[1]>>)
                   /\ UNCHANGED <<notification_queue, enqueued, routed>>
    /\ UNCHANGED <<router, pn, called>>
    /\ UNCHANGED <<cryptoVars, connVars, execVars, linkVars, engineVars, appVars>>

\* the awaited handler returns or raises an Exception (printed): the next
\* one is awaited, after the last one the sync handlers are queued
RouteHandlerReturns ==
    /\ rt.pc = "awaiting"
    /\ IF rt.at < Len(rt.async)
       THEN /\ rt' = [rt EXCEPT !.at = @ + 1]
            /\ awaited' = Append(awaited, <<rt.msg, rt.async[rt.at + 1]>>)
            /\ UNCHANGED <<notification_queue, enqueued, routed>>
       ELSE /\ RouteEnds(rt.msg, rt.async, rt.sync)
            /\ UNCHANGED awaited
    /\ UNCHANGED <<router, pn, pushes, called>>
    /\ UNCHANGED <<cryptoVars, connVars, execVars, linkVars, engineVars, appVars>>

\* the receive task is cancelled (execute_script pausing it,
\* _start_receive_loop, disconnect) while route awaits a handler:
\* CancelledError is not an Exception and leaves route at once
RouteCancelled ==
    /\ rt.pc = "awaiting"
    /\ rt' = NoRoute
    /\ routed' = Append(routed, [msg |-> rt.msg, async |-> rt.async, sync |-> rt.sync])
    /\ UNCHANGED <<router, notification_queue, pn, pushes, awaited, enqueued, called>>
    /\ UNCHANGED <<cryptoVars, connVars, execVars, linkVars, engineVars, appVars>>

\* the main thread calls process_notifications(max_count)
ProcessBegin ==
    /\ pn.pc = "idle"
    /\ \E n \in 1..MaxCount : pn' = [pc |-> "running", processed |-> 0, max_count |-> n]
    /\ UNCHANGED <<router, notification_queue, rt, pushes, awaited, enqueued, called, routed>>
    /\ UNCHANGED <<cryptoVars, connVars, execVars, linkVars, engineVars, appVars>>

\* one turn of its loop: get_nowait, call the handler, count
ProcessOne ==
    /\ pn.pc = "running"
    /\ pn.processed < pn.max_count
    /\ notification_queue # <<>>
    /\ called' = Append(called, Head(notification_queue))
    /\ notification_queue' = Tail(notification_queue)
    /\ pn' = [pn EXCEPT !.processed = @ + 1]
    /\ UNCHANGED <<router, rt, pushes, awaited, enqueued, routed>>
    /\ UNCHANGED <<cryptoVars, connVars, execVars, linkVars, engineVars, appVars>>

\* the loop ends: the count is reached or the queue is empty
ProcessEnds ==
    /\ pn.pc = "running"
    /\ pn.processed >= pn.max_count \/ notification_queue = <<>>
    /\ pn' = [pn EXCEPT !.pc = "idle"]
    /\ UNCHANGED <<router, notification_queue, rt, pushes, awaited, enqueued, called, routed>>
    /\ UNCHANGED <<cryptoVars, connVars, execVars, linkVars, engineVars, appVars>>

NextRouter ==
    \/ \E h \in AsyncNames : register_async(h)
    \/ \E h \in SyncNames : register_sync(h)
    \/ RouteBegin \/ RouteHandlerReturns \/ RouteCancelled
    \/ ProcessBegin \/ ProcessOne \/ ProcessEnds

SpecRouter == Init /\ [][NextRouter]_vars

(***************************************************************************)
(* One RemoteScriptExecutor serving several execute_script calls at once   *)
(* (specification SpecScripts).  Each call owns its process, its script    *)
(* file name (<script_id>.sh) and its RunningScript object, which the      *)
(* stream_output closures hold directly; the table running_scripts is      *)
(* shared and keyed by script id.  The process here is the shell alone,    *)
(* and a line it writes is read by the stream's reader at once.            *)
(***************************************************************************)
\* what the script run by call c writes as its n-th line on a stream
Output(c, stream, n) == "run " \o NatToStr(c) \o " " \o Line(stream, n)

\* the finally block of execute_script: running_scripts.pop(script_id, None)
\* and temp_file.unlink(), whatever call stored the entry or wrote the file
FinallyOf(c) ==
    /\ scripts' = [scripts EXCEPT ![runs[c].script_id] = 0]
    /\ script_files' = script_files \ {runs[c].script_id}

\* execute_script up to create_subprocess_exec: the script file is written
StartScript ==
    /\ \E c \in Calls, script_id \in ScriptIds :
          /\ runs[c].pc = "idle"
          /\ \A b \in Calls : b < c => runs[b].pc # "idle"
          /\ runs' = [runs EXCEPT ![c].pc = "spawning", ![c].script_id = script_id]
          /\ script_files' = script_files \cup {script_id}
    /\ UNCHANGED <<scripts, chunks, lx, observed>>
    /\ UNCHANGED <<cryptoVars, connVars, execVars, linkVars, routeVars, appVars>>

\* create_subprocess_exec returns: running_scripts[script_id] = running,
\* whatever the table held under that id, and the two readers start
ScriptSpawned ==
    /\ \E c \in Calls :
          /\ runs[c].pc = "spawning"
          /\ runs' = [runs EXCEPT ![c].pc = "streaming", ![c].alive = TRUE, ![c].state = "running",
                                  ![c].reader = [s \in StreamNames |-> "readline"]]
          /\ scripts' = [scripts EXCEPT ![runs[c].script_id] = c]
    /\ UNCHANGED <<chunks, script_files, lx, observed>>
    /\ UNCHANGED <<cryptoVars, connVars, execVars, linkVars, routeVars, appVars>>

\* the script's process exits of its own accord
ScriptEnds ==
    /\ \E c \in Calls :
          /\ runs[c].alive
          /\ runs' = [runs EXCEPT ![c].alive = FALSE]
    /\ UNCHANGED <<scripts, chunks, script_files, lx, observed>>
    /\ UNCHANGED <<cryptoVars, connVars, execVars, linkVars, routeVars, appVars>>

\* RunningScript.next_sequence: the number returned and the object after it
next_sequence(running) == [seq |-> running.sequence, running |-> [running EXCEPT !.sequence = @ + 1]]

BufferOf(running, stream) == IF stream = "stdout" THEN running.stdout_buffer ELSE running.stderr_buffer

\* the on_output calls made so far on the executor
Emitted == Len(chunks[1]) + Len(chunks[2])

\* the script of call c has a line to write on stream s, which readline returns
HasLine(c, s) ==
    /\ runs[c].reader[s] = "readline"
    /\ runs[c].alive
    /\ Len(runs[c].stdout_buffer) + Len(runs[c].stderr_buffer) < MaxChunks

\* the body of stream_output's loop for a line read by call c: the line is
\* appended to the stream's buffer of the call's own RunningScript and
\* on_output(script_id, stream_name, data, seq) is called
Emit(c, s, seq, running) ==
    LET data == Output(c, s, Len(BufferOf(running, s)) + 1)
    IN  /\ runs' = [runs EXCEPT ![c] =
                       IF s = "stdout"
                       THEN [running EXCEPT !.stdout_buffer = Append(@, data)]
                       ELSE [running EXCEPT !.stderr_buffer = Append(@, data)]]
        /\ chunks' = [chunks EXCEPT ![c] =
                         Append(@, [script_id |-> running.script_id, stream |-> s, data |-> data, sequence |-> seq])]

\* variant: each stream numbers its own lines
stream_output_numbering_streams ==
    /\ \E c \in Calls, s \in StreamNames :
          /\ HasLine(c, s)
          /\ Emit(c, s, Len(BufferOf(runs[c], s)), next_sequence(runs[c]).running)
    /\ UNCHANGED <<scripts, script_files, lx, observed>>
    /\ UNCHANGED <<cryptoVars, connVars, execVars, linkVars, routeVars, appVars>>

\* variant: one counter for the whole executor
stream_output_numbering_executor ==
    /\ \E c \in Calls, s \in StreamNames :
          /\ HasLine(c, s)
          /\ Emit(c, s, Emitted, next_sequence(runs[c]).running)
    /\ UNCHANGED <<scripts, script_files, lx, observed>>
    /\ UNCHANGED <<cryptoVars, connVars, execVars, linkVars, routeVars, appVars>>

\* stream_output: readline returns a line; it is numbered by the call's own
\* RunningScript, buffered and handed to on_output
stream_output ==
    /\ \E c \in Calls, s \in StreamNames :
          /\ HasLine(c, s)
          /\ Emit(c, s, next_sequence(runs[c]).seq, next_sequence(runs[c]).running)
    /\ UNCHANGED <<scripts, script_files, lx, observed>>
    /\ UNCHANGED <<cryptoVars, connVars, execVars, linkVars, routeVars, appVars>>

\* stream_output: readline returns b"" once the process has closed the pipe
StreamEnds ==
    /\ \E c \in Calls, s \in StreamNames :
          /\ runs[c].reader[s] = "readline"
          /\ ~runs[c].alive
          /\ runs' = [runs EXCEPT ![c].reader[s] = "eof"]
    /\ UNCHANGED <<scripts, chunks, script_files, lx, observed>>
    /\ UNCHANGED <<cryptoVars, connVars, execVars, linkVars, routeVars, appVars>>

\* gather and process.wait() return: the script is Completed, the finally
\* block runs and the call returns
ScriptReturns ==
    /\ \E c \in Calls :
          /\ runs[c].pc = "streaming"
          /\ \A s \in StreamNames : runs[c].reader[s] = "eof"
          /\ runs' = [runs EXCEPT ![c].pc = "returned", ![c].state = "completed"]
          /\ FinallyOf(c)
    /\ UNCHANGED <<chunks, lx, observed>>
    /\ UNCHANGED <<cryptoVars, connVars, execVars, linkVars, routeVars, appVars>>

\* wait_for raises TimeoutError: the readers are cancelled, _kill_process
\* ends the process, the script is Failed, the finally block runs
ScriptTimesOut ==
    /\ \E c \in Calls :
          /\ runs[c].pc = "streaming"
          /\ runs' = [runs EXCEPT ![c].pc = "returned", ![c].state = "failed", ![c].alive = FALSE,
                                  ![c].reader = [s \in StreamNames |-> Cancelled(runs[c].reader[s])]]
          /\ FinallyOf(c)
    /\ UNCHANGED <<chunks, lx, observed>>
    /\ UNCHANGED <<cryptoVars, connVars, execVars, linkVars, routeVars, appVars>>

\* cancel_script(script_id): the RunningScript the table holds under the id,
\* if it is Running, is marked Cancelled and _kill_process ends its process
CancelScript ==
    /\ \E script_id \in ScriptIds :
          LET c == scripts[script_id]
          IN  IF c = 0 \/ runs[c].state # "running"
              THEN UNCHANGED runs
              ELSE runs' = [runs EXCEPT ![c].state = "cancelled", ![c].alive = FALSE]
    /\ UNCHANGED <<scripts, chunks, script_files, lx, observed>>
    /\ UNCHANGED <<cryptoVars, connVars, execVars, linkVars, routeVars, appVars>>

NextScripts ==
    \/ StartScript \/ ScriptSpawned \/ ScriptEnds
    \/ stream_output \/ StreamEnds \/ ScriptReturns \/ ScriptTimesOut \/ CancelScript

SpecScripts == Init /\ [][NextScripts]_vars

(***************************************************************************)
(* The local ScriptExecutor: one execute_script call, its stream_output    *)
(* readers, and get_progress asked from outside (specification SpecLocal). *)
(* A line the script writes is read by the stream's reader at once.        *)
(***************************************************************************)
\* a line carrying a step marker, and lines without one
Marked(n, m, rest) == "[Step " \o NatToStr(n) \o "/" \o NatToStr(m) \o "] " \o rest \o "\n"

Rests == {"compile", "link"}
Unmarked == {"compile\n", "[Step 1]\n"}
Lines == {Marked(n, m, rest) : n \in 0..MaxStep, m \in 1..MaxStep, rest \in Rests} \cup Unmarked

\* re.search(r'\[Step\s+(\d+)/(\d+)\]', data): the two groups as integers,
\* or None
step_match(data) ==
    IF \E n \in 0..MaxStep, m \in 1..MaxStep, rest \in Rests : data = Marked(n, m, rest)
    THEN CHOOSE g \in [matched : {TRUE}, n : 0..MaxStep, m : 1..MaxStep] :
            \E rest \in Rests : data = Marked(g.n, g.m, rest)
    ELSE NoMatch

\* execute_script up to create_subprocess_exec: the locals are initialised
LocalExecute ==
    /\ lx.pc = "idle"
    /\ \E total_steps \in {0, MaxStep} :
          lx' = [lx EXCEPT !.pc = "spawning", !.total_steps = total_steps, !.steps_completed = 0]
    /\ UNCHANGED <<scripts, runs, chunks, script_files, observed>>
    /\ UNCHANGED <<cryptoVars, connVars, execVars, linkVars, routeVars, appVars>>

\* create_subprocess_exec returns: the RunningScript is stored under the id
LocalSpawned ==
    /\ lx.pc = "spawning"
    /\ lx' = [lx EXCEPT !.pc = "streaming", !.alive = TRUE,
                        !.running = [found |-> TRUE, steps_completed |-> 0, total_steps |-> lx.total_steps]]
    /\ UNCHANGED <<scripts, runs, chunks, script_files, observed>>
    /\ UNCHANGED <<cryptoVars, connVars, execVars, linkVars, routeVars, appVars>>

\* stream_output: a line is read, appended to the stream's buffer and
\* searched for a marker, whose first group becomes steps_completed
LocalStreamOutput ==
    /\ lx.pc = "streaming"
    /\ lx.alive
    /\ Len(lx.stdout_buffer) + Len(lx.stderr_buffer) < MaxPrinted
    /\ \E stream_name \in StreamNames, data \in Lines :
          LET read == IF stream_name = "stdout"
                      THEN [lx EXCEPT !.stdout_buffer = Append(@, data), !.step_match = step_match(data)]
                      ELSE [lx EXCEPT !.stderr_buffer = Append(@, data), !.step_match = step_match(data)]
          IN  lx' = IF step_match(data).matched
                    THEN [read EXCEPT !.steps_completed = step_match(data).n,
                                      !.running.steps_completed = step_match(data).n]
                    ELSE read
    /\ UNCHANGED <<scripts, runs, chunks, script_files, observed>>
    /\ UNCHANGED <<cryptoVars, connVars, execVars, linkVars, routeVars, appVars>>

\* the script's process exits
LocalScriptEnds ==
    /\ lx.alive
    /\ lx' = [lx EXCEPT !.alive = FALSE]
    /\ UNCHANGED <<scripts, runs, chunks, script_files, observed>>
    /\ UNCHANGED <<cryptoVars, connVars, execVars, linkVars, routeVars, appVars>>

\* both readers reach the end of their stream, process.wait() returns, the
\* finally block pops the RunningScript and the call returns
LocalReturns ==
    /\ lx.pc = "streaming"
    /\ ~lx.alive
    /\ lx' = [lx EXCEPT !.pc = "returned", !.running = NoRunning]
    /\ UNCHANGED <<scripts, runs, chunks, script_files, observed>>
    /\ UNCHANGED <<cryptoVars, connVars, execVars, linkVars, routeVars, appVars>>

\* get_progress(script_id): (steps_completed, total_steps) of the
\* RunningScript stored under the id, or None
Progress == lx.running

\* get_progress is asked; what it returns is logged when it is new
get_progress ==
    /\ IF observed = <<>> THEN TRUE ELSE observed[Len(observed)] # Progress
    /\ observed' = Append(observed, Progress)
    /\ UNCHANGED <<scripts, runs, chunks, script_files, lx>>
    /\ UNCHANGED <<cryptoVars, connVars, execVars, linkVars, routeVars, appVars>>

NextLocal ==
    \/ LocalExecute \/ LocalSpawned \/ LocalStreamOutput \/ LocalScriptEnds
    \/ LocalReturns \/ get_progress

SpecLocal == Init /\ [][NextLocal]_vars

(***************************************************************************)
(* Properties of signing and verification (specification Spec).            *)
(***************************************************************************)
Complete(message) == FirstMissing(message, 1) = ""

\* the verifier's clock is within the max-age window of the timestamp
Fresh(message, at) ==
    /\ message.timestamp.kind = "int"
    /\ Abs(at - message.timestamp.int) <= MAX_MESSAGE_AGE

\* C2: an envelope as sign_message produced it, verified under the signer's
\* public key, is valid whenever the age check is off or the verifier's clock
\* is within MAX_MESSAGE_AGE of its timestamp.
Thm_C2_SignThenVerify ==
    (/\ verdict # NoVerdict
     /\ verdict.message = signed.envelope
     /\ verdict.key = signed.by
     /\ (verdict.check => Fresh(verdict.message, verdict.at)))
    => verdict.result = Valid

Wit_C2_SignThenVerify ==
    /\ verdict # NoVerdict
    /\ verdict.message = signed.envelope
    /\ verdict.key = signed.by
    /\ verdict.check
    /\ verdict.at > verdict.message.timestamp.int
    /\ verdict.result = Valid

\* the verified frame is the signed envelope with the payload, the type, the
\* timestamp or the nonce changed, and the signature as it was
AlteredAfterSigning ==
    /\ verdict # NoVerdict
    /\ Complete(verdict.message)
    /\ verdict.key = signed.by
    /\ verdict.message # signed.envelope
    /\ verdict.message.signature = signed.envelope.signature

\* C3 as stated: verifying an envelope whose payload, type, timestamp or nonce
\* was changed after signing fails with the invalid-signature error (here for
\* the default call, age check on, and an integer timestamp).
CE_C3_AlteredIsInvalidSignature ==
    (AlteredAfterSigning /\ verdict.check /\ verdict.message.timestamp.kind = "int")
    => verdict.result = Invalid("Invalid signature")

\* C3 as amended: with the payload, type or nonce changed to another value, or
\* the timestamp to another integer, verification fails: with the expired
\* error when the age check is on and the frame's timestamp is outside the
\* window, and with the invalid-signature error otherwise.
Thm_C3_AlteredFails ==
    (AlteredAfterSigning /\ verdict.message.timestamp.kind = "int")
    => verdict.result =
         IF verdict.check /\ ~Fresh(verdict.message, verdict.at)
         THEN Expired(Abs(verdict.at - verdict.message.timestamp.int))
         ELSE Invalid("Invalid signature")

Wit_C3_AlteredFails ==
    /\ AlteredAfterSigning
    /\ verdict.message.payload # signed.envelope.payload
    /\ verdict.check
    /\ verdict.result = Invalid("Invalid signature")

\* C4: re-signing an envelope that hop A signed with the key of another hop B
\* keeps the type and the payload; the result, verified within the window,
\* is valid under B's public key and is not valid under A's.
Thm_C4_ReSign ==
    (resigned # NoResign /\ resigned.intact /\ resigned.by # resigned.was)
    => /\ resigned.out.type = resigned.type
       /\ resigned.out.payload = resigned.payload
       /\ (verdict # NoVerdict /\ verdict.message = resigned.out)
          => /\ (verdict.key = resigned.by
                 /\ (verdict.check => Fresh(verdict.message, verdict.at)))
                => verdict.result = Valid
             /\ verdict.key = resigned.was => ~verdict.result.ok

Wit_C4_ReSign ==
    /\ resigned # NoResign
    /\ resigned.intact
    /\ resigned.by # resigned.was
    /\ verdict # NoVerdict
    /\ verdict.message = resigned.out
    /\ verdict.key = resigned.was
    /\ verdict.check
    /\ verdict.result = Invalid("Invalid signature")

\* C5: with the age check on, a complete envelope whose integer timestamp is
\* more than MAX_MESSAGE_AGE from the verifier's clock is rejected with the
\* expired error whatever its signature; at exactly MAX_MESSAGE_AGE it is not.
Thm_C5_Expiry ==
    (/\ verdict # NoVerdict
     /\ verdict.check
     /\ Complete(verdict.message)
     /\ verdict.message.timestamp.kind = "int")
    => LET age == Abs(verdict.at - verdict.message.timestamp.int)
       IN  /\ age > MAX_MESSAGE_AGE => verdict.result = Expired(age)
           /\ age = MAX_MESSAGE_AGE => verdict.result # Expired(age)

Wit_C5_Expiry ==
    /\ verdict # NoVerdict
    /\ verdict.check
    /\ verdict.message = signed.envelope
    /\ verdict.key = signed.by
    /\ verdict.at - verdict.message.timestamp.int = MAX_MESSAGE_AGE + 1
    /\ verdict.result = Expired(MAX_MESSAGE_AGE + 1)


(***************************************************************************)
(* Properties of the server's loop (specification SpecServer).             *)
(***************************************************************************)
\* C1: whenever a handler was invoked for a frame (and whenever a command was
\* run or a file read or written), verify_message under the server's key
\* returned valid for that very frame at the time the loop called it.
Thm_C1_HandlerOnlyAfterVerify ==
    (srv.handler # "" \/ srv.effect # NoEffect)
    => /\ srv.message # NoFrame
       /\ verify_message(MCP_PUBLIC_KEY, srv.message, TRUE, srv.verified_at) = Valid

Wit_C1_HandlerOnlyAfterVerify ==
    /\ srv.pc = "sent"
    /\ srv.handler = "handle_command"
    /\ srv.effect.kind = "run"
    /\ signed.by = MCP_PUBLIC_KEY
    /\ srv.reply = CommandReply(0)

(***************************************************************************)
(* Properties of the persistent connection (specification SpecConn).       *)
(***************************************************************************)
\* C6: an inbound response frame that carries request_id r completes the
\* _send_and_wait call that was sent with request_id r, and no other call:
\* whenever a call returns a frame that carries a request_id, that
\* request_id is the call's own.
CE_C6_ResponseCompletesItsCall ==
    (returned.how = "response" /\ returned.request_id # "")
        => returned.request_id = request_id(returned.id)

\* the case where the correlation works: the call is pending when its
\* tagged response arrives, and it returns that response
Reach_C6_CorrelatedReturn ==
    /\ returned.how = "response"
    /\ returned.request_id # ""
    /\ returned.request_id = request_id(returned.id)

\* the entry among `keys` whose request was sent first
Oldest(keys) == CHOOSE n \in keys : \A m \in keys : n <= m

\* the frame the receive loop is about to read takes the fallback path
FallbackFrame ==
    /\ inbound # <<>>
    /\ ~(Head(inbound).request_id # "" /\ Head(inbound).request_id \in PendingKeys)
    /\ ~IsPush(Head(inbound).type)
    /\ pending_requests # {}

\* C16: when the receive loop reads a frame that is no push and carries no
\* request_id of a pending call while a call is pending, it removes and
\* completes the entry of the request sent earliest, and no other.
CE_C16_FallbackCompletesOldest ==
    [][ (FallbackFrame /\ inbound' = Tail(inbound)) =>
           /\ pending_requests' = pending_requests \ {Oldest(pending_requests)}
           /\ \A n \in DOMAIN calls : n # Oldest(pending_requests) => calls'[n] = calls[n]
      ]_vars

\* the fallback path completing the older of two pending calls
Reach_C16_OldestCompleted ==
    /\ 1 \in DOMAIN calls /\ calls[1].pc = "resolved" /\ calls[1].request_id = ""
    /\ 2 \in DOMAIN calls /\ calls[2].pc = "waiting"
    /\ pending_requests = {2}

\* C20: once a _send_and_wait call has ended, however it ended, the
\* pending-request table has no entry under its request id.
CE_C20_NoEntryAfterCallEnds ==
    returned.id # 0 => returned.id \notin pending_requests

\* a call that ended by timeout, its entry popped
Reach_C20_TimeoutPopsEntry ==
    /\ returned.how = "timeout"
    /\ returned.id \notin pending_requests
    /\ pending_requests # {}

(***************************************************************************)
(* Properties of the remote script executor (specification SpecExec).      *)
(***************************************************************************)
Terminal == {"completed", "failed", "cancelled"}

\* C7: a script's state only moves from Running to Completed, Failed or
\* Cancelled, and once it is Completed, Failed or Cancelled it never changes
\* again, whatever the interleaving of execute_script, cancel_script,
\* process exit and timeout.
CE_C7_StateMonotonic ==
    [][/\ (rs.state = "running" /\ rs'.state # rs.state) => rs'.state \in Terminal
       /\ rs.state \in Terminal => rs'.state = rs.state]_vars

\* a script cancelled while running, whose execute_script call has returned
Reach_C7_CancelledThenReturned ==
    /\ cn.pc = "returned"
    /\ ex.pc = "returned"

\* C8: cancel_script for an id that is not in the running table, or whose
\* script is not Running, returns (False, "", ""), sends no signal and
\* changes no state; only a script found Running is marked and signalled.
Thm_C8_CancelNotRunning ==
    /\ [][refusal' # refusal =>
            /\ refusal'.pc = "returned"
            /\ refusal'.found # "running"
            /\ ~refusal'.was_running
            /\ refusal'.partial_stdout = "" /\ refusal'.partial_stderr = ""
            /\ UNCHANGED <<running_scripts, ex, rs, readers, proc, signals, temp_files, cn>>]_vars
    /\ [][(cn' # cn /\ cn'.pc = "grace") =>
            /\ cn'.script_id \in running_scripts
            /\ rs.state = "running"]_vars
    /\ [][(Len(signals') > Len(signals) /\ signals'[Len(signals')].by = "cancel") =>
            \/ cn.pc = "grace"
            \/ cn'.script_id \in running_scripts /\ rs.state = "running"]_vars

\* a second cancel_script for a script that is still in the table, already
\* Cancelled and already signalled once, has been refused
Wit_C8_CancelNotRunning ==
    /\ refusal.pc = "returned"
    /\ refusal.found = "cancelled"
    /\ refusal.script_id \in running_scripts
    /\ Len(signals) = 1
    /\ ~refusal.was_running

\* C9: cancel_script(id, sig) for a script in state Running sends sig to the
\* script's whole process group and returns was_running = True together
\* with exactly the stdout and stderr chunks buffered when it returns.
CE_C9_CancelSignalsGroup ==
    /\ [](\A i \in DOMAIN signals :
            (signals[i].by = "cancel" /\ signals[i].group # {}) => signals[i].delivered)
    /\ [](cn.pc # "idle" => \E i \in DOMAIN signals :
                               signals[i].by = "cancel" /\ signals[i].sig = cn.sig)
    /\ [](cn.pc = "returned" => cn.was_running)
    /\ [][(cn.pc = "grace" /\ cn'.pc = "returned") =>
            /\ cn'.partial_stdout = Join(rs'.stdout_buffer)
            /\ cn'.partial_stderr = Join(rs'.stderr_buffer)]_vars

\* the ordinary cancel: the shell was alive, got the signal with its
\* descendant, and the buffered line came back
Reach_C9_CancelDelivered ==
    /\ cn.pc = "returned"
    /\ cn.partial_stdout = Line("stdout", 1)
    /\ \E i \in DOMAIN signals :
          signals[i].by = "cancel" /\ signals[i].delivered /\ signals[i].group = {"leader", "child"}

TimeoutCalls == {i \in DOMAIN signals : signals[i].by = "timeout"}

\* C10: when a script exceeds its timeout, SIGTERM is sent to the script's
\* process group first; SIGKILL is sent only afterwards and only if the
\* process has not exited within the grace period; the call returns
\* returncode -9, a non-empty timeout error message and state Failed.
CE_C10_TimeoutTermThenKill ==
    /\ \A i \in TimeoutCalls :
          (\A j \in TimeoutCalls : i <= j) =>
              /\ signals[i].sig = "SIGTERM"
              /\ signals[i].group # {} => signals[i].delivered
    /\ \A i \in TimeoutCalls :
          signals[i].sig = "SIGKILL" =>
              /\ "leader" \in signals[i].group
              /\ \E j \in TimeoutCalls : j < i /\ signals[j].sig = "SIGTERM"
    /\ (ex.pc = "returned" /\ TimeoutCalls # {}) =>
          /\ ex.returncode = -9
          /\ ex.error_message \notin {PyNone, ""}
          /\ rs.state = "failed"

\* the ordinary timeout: SIGTERM reached the shell, which ignored it, and
\* SIGKILL followed
Reach_C10_TermThenKill ==
    /\ ex.pc = "returned"
    /\ Len(signals) = 2
    /\ signals[1] = [sig |-> "SIGTERM", by |-> "timeout", group |-> {"leader"}, delivered |-> TRUE]
    /\ signals[2] = [sig |-> "SIGKILL", by |-> "timeout", group |-> {"leader"}, delivered |-> TRUE]

Ended == ex.pc \in {"returned", "raised"}

\* C11: after execute_script returns or raises, by any path (normal exit,
\* timeout, failure to spawn, exception from the output callback,
\* cancellation of the caller), the script's temporary file no longer exists
\* and running_scripts has no entry for the call.
Thm_C11_CleanupOnEveryPath ==
    Ended => /\ ex.script_id \notin temp_files
             /\ ex.script_id \notin running_scripts

\* the call ended because on_output raised while the script was registered
\* and its file existed; the other reader is still at work
Wit_C11_CleanupOnEveryPath ==
    /\ ex.pc = "raised"
    /\ rs.state = "running"
    /\ \E s \in StreamNames : readers[s] = "failed"
    /\ temp_files = {}
    /\ running_scripts = {}

\* C12: on every exit path of execute_script the spawned process has exited
\* or been killed by the time the call ends: no script process runs once the
\* call has ended and its entry is gone.
CE_C12_NoProcessOutlivesCall ==
    Ended => ~proc.leader

\* the exit paths that do end the process: normal completion and timeout
Reach_C12_TimeoutKills ==
    /\ ex.pc = "returned"
    /\ ex.returncode = -9
    /\ ~proc.leader
    /\ Len(signals) = 2

(***************************************************************************)
(* Properties of the connection's life (specification SpecLink).           *)
(***************************************************************************)
\* C13: _reconnect makes at most max_reconnect_attempts attempts; the sleep
\* after the i-th failed attempt is reconnect_delay doubled i-1 times; there
\* is no sleep after the last attempt, and a call whose every attempt
\* failed has raised ConnectionError after exactly that many attempts.
Thm_C13_ReconnectBounded ==
    /\ reconn.attempt < max_reconnect_attempts
    /\ Len(reconn.slept) <= max_reconnect_attempts - 1
    /\ \A i \in 1..Len(reconn.slept) : reconn.slept[i] = reconnect_delay * 2^(i - 1)
    /\ reconn.pc \in {"trying", "connecting"} => Len(reconn.slept) = reconn.attempt
    /\ reconn.pc = "sleeping" => Len(reconn.slept) = reconn.attempt + 1
    /\ reconn.pc = "raised" => /\ reconn.attempt = max_reconnect_attempts - 1
                               /\ Len(reconn.slept) = max_reconnect_attempts - 1

Wit_C13_ReconnectBounded ==
    /\ reconn.pc = "raised"
    /\ reconn.slept = <<1, 2, 4, 8>>
    /\ ops[reconn.owner].pc = "idle"

\* C14: a ping that times out clears the connected flag; an operation
\* that calls ensure_connected while the flag is clear enters _reconnect
\* and takes no request id, and it goes on to send only when an attempt has
\* opened a new socket and set the flag again.
Thm_C14_PingTimeoutForcesReconnect ==
    [][ /\ (ping_task.pc = "pinging" /\ ping_task'.pc = "timedout") => ~connected'
        /\ \A k \in OpKinds :
              /\ (ops[k].pc = "idle" /\ ~connected /\ ops'[k] # ops[k]) =>
                     /\ ops'[k].pc = "reconnecting"
                     /\ reconn'.pc = "trying" /\ reconn'.owner = k
                     /\ UNCHANGED <<request_id_counter, pending_requests>>
              /\ (ops[k].pc = "reconnecting" /\ ops'[k].pc \in {"waiting", "inflight"}) =>
                     /\ connected'
                     /\ opened' = opened + 1
                     /\ client' = opened'
                     /\ client' \in sockets'
      ]_vars

Wit_C14_PingTimeoutForcesReconnect ==
    /\ ping_task.pc = "timedout"
    /\ ~connected
    /\ client \in sockets
    /\ \E k \in OpKinds : ops[k].pc = "reconnecting"

\* C15: request ids only grow: whoever takes an id in a step (an operation
\* or the ping loop) takes request_id_counter + 1 and leaves the counter
\* there, and no step lowers the counter, a reconnect included; so an id
\* differs from every id taken before it, and so do the strings "req_N".
Thm_C15_FreshIdsAcrossReconnects ==
    [][ /\ request_id_counter' >= request_id_counter
        /\ ops'["command"].request_id \notin {0, ops["command"].request_id} =>
               /\ ops'["command"].request_id = request_id_counter + 1
               /\ request_id_counter' = request_id_counter + 1
        /\ ping_task'.request_id \notin {0, ping_task.request_id} =>
               /\ ping_task'.request_id = request_id_counter + 1
               /\ request_id_counter' = request_id_counter + 1
        /\ \A n \in 0..request_id_counter :
               request_id(n) # request_id(request_id_counter + 1)
      ]_vars

\* a request sent on the second socket, after an earlier request on the first
Wit_C15_FreshIdsAcrossReconnects ==
    /\ ops["command"].pc = "waiting"
    /\ ops["command"].request_id >= 2
    /\ reconn.pc = "done"
    /\ reconn.owner = "command"
    /\ opened >= 2
    /\ client = opened
    /\ client \in sockets

\* no receive loop runs while execute_script is in flight
PausedWhileInFlight == InFlight # {} => receive_task # "running"

\* every step in which execute_script leaves its try block starts a loop
ExitRestartsReceiveLoop ==
    [][ \A k \in Scripts : (ops[k].pc = "inflight" /\ ops'[k].pc # "inflight") => receive_task' = "running" ]_vars

\* C17: while execute_script is in flight on the persistent connection
\* the receive loop is not running, and every exit of execute_script
\* starts a receive loop again.
CE_C17_ReceiveLoopPausedForScript == []PausedWhileInFlight /\ ExitRestartsReceiveLoop

(***************************************************************************)
(* Properties of the MCP connection manager (specification SpecMcp).       *)
(***************************************************************************)
\* C19: at any time at most one socket opened by the manager is open.
CE_C19_OneOpenSocket == Cardinality(mcp.open) <= 1

\* C19: the manager was disconnected and connected again, one socket is open
Reach_C19_ReopenedAfterDisconnect ==
    /\ mcp.opened = 2
    /\ mcp.open = {2}
    /\ is_connected

\* a failed ping clears the flag and leaves the socket in place; the next
\* ensure_connected then calls connect
McpPingFailureForcesConnect ==
    [][ /\ (mcp.pc = "pinging" /\ mcp'.pc = "idle" /\ mcp'.connected # mcp.connected) => ~mcp'.connected
        /\ (mcp.pc = "idle" /\ mcp'.pc \in {"pinging", "commanding"}) => is_connected
      ]_vars

(***************************************************************************)
(* Properties of the message router (specification SpecRouter).            *)
(***************************************************************************)
\* how many times entry e occurs in the log
Count(log, e) == Cardinality({i \in DOMAIN log : log[i] = e})

\* every async handler of an ended route call was awaited on the loop
AsyncAllAwaited ==
    \A i \in DOMAIN routed : \A j \in DOMAIN routed[i].async :
        <<routed[i].msg, routed[i].async[j]>> \in Range(awaited)

\* every sync handler of an ended route call was put on the queue once
SyncQueuedOnce ==
    \A i \in DOMAIN routed : \A j \in DOMAIN routed[i].sync :
        Count(enqueued, <<routed[i].msg, routed[i].sync[j]>>) = 1

\* sync handlers are never run by route, and process_notifications calls
\* them in queue order, at most max_count per call
SyncOnlyInProcess ==
    /\ \A e \in Range(awaited) : e[2] \in AsyncNames
    /\ \A e \in Range(called) : e[2] \in SyncNames
    /\ called = SubSeq(enqueued, 1, Len(called))
    /\ pn.processed <= pn.max_count

\* C18: for every routed push message each async handler registered for
\* its type is awaited on the event loop and each sync handler registered
\* for its type is put on the queue exactly once and never called by
\* route; sync handlers run only in process_notifications, in queue order,
\* at most max_count per call.
CE_C18_RouterDelivery == AsyncAllAwaited /\ SyncQueuedOnce /\ SyncOnlyInProcess

\* a message delivered to two async handlers and two sync handlers, the
\* sync ones called in order by process_notifications
Reach_C18_Delivered ==
    /\ Len(router.sync) = 2
    /\ Len(routed) = 1
    /\ routed[1].sync = router.sync
    /\ Len(awaited) = 2
    /\ called = <<<<1, router.sync[1]>>, <<1, router.sync[2]>>>>

(***************************************************************************)
(* Properties of the server's connection loop (specification SpecServer).  *)
(***************************************************************************)
\* the loop has answered a frame it could not decode or could not verify
RejectedFrame == srv.pc = "sent" /\ srv.handler = "" /\ srv.reply.code \in {"PARSE_ERROR", "AUTH_FAILED"}

\* C21: a frame that fails JSON decoding or verification gets one error
\* reply, PARSE_ERROR or AUTH_FAILED, and the loop goes on to the next
\* frame; no frame ends the connection loop.
CE_C21_BadFrameKeepsLoop ==
    /\ srv.pc # "closed"
    /\ (srv.pc = "sent" /\ srv.message = NoFrame) => srv.reply = send_error("PARSE_ERROR")
    /\ (srv.pc = "sent" /\ srv.message # NoFrame /\ ~srv.is_valid) => srv.reply = send_error("AUTH_FAILED")

\* a frame with a bad signature answered with AUTH_FAILED, the loop alive
Reach_C21_AuthFailedAnswered ==
    /\ RejectedFrame
    /\ srv.reply.code = "AUTH_FAILED"
    /\ srv.error = "Invalid signature"

\* C22: a command that ran and exited, with whatever code, is answered by a
\* frame of type response carrying that code, which the client returns
\* without raising; in every command reply success is true exactly when
\* returncode is 0.
Thm_C22_NonZeroExitIsAResult ==
    (srv.pc = "sent" /\ srv.handler = "handle_command") =>
        /\ (srv.effect.kind = "run" /\ srv.outcome \in {"exit0", "exit1"}) =>
              /\ srv.reply.type = "response"
              /\ srv.reply.returncode = ReturnCode(srv.outcome)
              /\ execute_command_returns(srv.reply).raised = ""
              /\ execute_command_returns(srv.reply).returncode = ReturnCode(srv.outcome)
        /\ srv.reply.type = "response" =>
              /\ srv.reply.success <=> (srv.reply.returncode = 0)
              /\ execute_command_returns(srv.reply).success <=> (srv.reply.returncode = 0)

Wit_C22_NonZeroExitIsAResult ==
    /\ srv.pc = "sent"
    /\ srv.handler = "handle_command"
    /\ srv.outcome = "exit1"
    /\ srv.effect.kind = "run"
    /\ srv.reply.returncode = 1
    /\ ~execute_command_returns(srv.reply).success

\* C23: the chunks one script hands to on_output are numbered 0, 1, 2, ...
\* in the order they are emitted, stdout and stderr together: each number is
\* one more than the one before and none is used twice.
Thm_C23_SequenceCountsChunks ==
    \A c \in Calls :
        /\ \A i \in 1..Len(chunks[c]) : chunks[c][i].sequence = i - 1
        /\ runs[c].sequence = Len(chunks[c])

Wit_C23_SequenceCountsChunks ==
    \E c \in Calls :
        /\ Len(chunks[c]) = 3
        /\ chunks[c][1].stream = "stdout"
        /\ chunks[c][2].stream = "stderr"
        /\ chunks[c][3].stream = "stdout"
        /\ chunks[c][3].sequence = 2

\* the chunks emitted under a script id, whatever call emitted them
ChunksOf(script_id) ==
    {ch \in UNION {{chunks[c][i] : i \in 1..Len(chunks[c])} : c \in Calls} : ch.script_id = script_id}

\* C24: when the two calls run scripts with distinct ids, every chunk carries
\* the id of the script that produced it, the numbers used under each id are
\* 0..n-1 for its own n chunks whatever the other script has emitted, and
\* each script's buffers hold its own lines only.
Thm_C24_ScriptsDoNotMix ==
    (runs[1].script_id # runs[2].script_id) =>
        /\ \A c \in Calls : \A i \in 1..Len(chunks[c]) :
              /\ chunks[c][i].script_id = runs[c].script_id
              /\ \E n \in 1..MaxChunks : chunks[c][i].data = Output(c, chunks[c][i].stream, n)
        /\ \A script_id \in ScriptIds :
              {ch.sequence : ch \in ChunksOf(script_id)} = 0..(Cardinality(ChunksOf(script_id)) - 1)
        /\ \A c \in Calls, s \in StreamNames : \A n \in 1..Len(BufferOf(runs[c], s)) :
              BufferOf(runs[c], s)[n] = Output(c, s, n)

Wit_C24_ScriptsDoNotMix ==
    /\ runs[1].script_id = "A" /\ runs[2].script_id = "B"
    /\ runs[1].alive /\ runs[2].alive
    /\ Len(chunks[1]) = 1
    /\ Len(chunks[2]) = 3
    /\ Len(runs[1].stdout_buffer) = 1
    /\ Len(runs[2].stderr_buffer) = 2

\* the calls whose process is alive under a script id
Live(script_id) == {c \in Calls : runs[c].script_id = script_id /\ runs[c].alive}

\* C26: the executor never has two live processes under one script id.
CE_C26_OneLiveProcessPerId ==
    \A script_id \in ScriptIds : Cardinality(Live(script_id)) <= 1

Reach_C26_SecondProcessSameId ==
    /\ Live("A") = {1, 2}
    /\ scripts["A"] = 2

\* C25: once a line with a "[Step N/M]" marker has been read, the script's
\* progress is (N, M).
CE_C25_MarkerSetsProgress ==
    (lx.running.found /\ lx.step_match.matched) =>
        /\ Progress.steps_completed = lx.step_match.n
        /\ Progress.total_steps = lx.step_match.m

Reach_C25_BothMarkersRead ==
    /\ lx.running.found
    /\ lx.stdout_buffer = <<Marked(1, 2, "compile"), Marked(2, 2, "link")>>
    /\ Len(observed) = 3
    /\ observed[1].steps_completed = 0 /\ observed[1].total_steps = 0
    /\ observed[2].steps_completed = 1 /\ observed[2].total_steps = 0
    /\ observed[3].steps_completed = 2 /\ observed[3].total_steps = 0

\* the envelope fields a frame lacks
Lacking(message) == {EnvelopeFields[i] : i \in 1..Len(EnvelopeFields)} \ DOMAIN message

\* C27: verify_message on an envelope that lacks one of type, payload,
\* timestamp, nonce, signature fails with the error naming that field,
\* whatever the age of the envelope and whatever its signature.
Thm_C27_MissingFieldNamed ==
    (verdict # NoVerdict /\ Lacking(verdict.message) # {}) =>
        /\ ~verdict.result.ok
        /\ \E field \in Lacking(verdict.message) :
              verdict.result = Invalid("Missing required field: '" \o field \o "'")

Wit_C27_MissingFieldNamed ==
    /\ verdict # NoVerdict
    /\ Lacking(verdict.message) = {"nonce"}
    /\ verdict.check
    /\ ~Fresh(verdict.message, verdict.at)
    /\ verdict.result = Invalid("Missing required field: 'nonce'")

\* the payload keys each handler's from_payload reads with payload[...]
RequiredFields(handler) ==
    CASE handler = "handle_command" -> {"command"}
      [] handler = "handle_upload" -> {"remote_path", "data"}
      [] handler = "handle_download" -> {"remote_path"}
      [] OTHER -> {}

\* C28: a verified command, upload or download request whose payload lacks
\* a required field is answered with the error INVALID_REQUEST, and the
\* handler runs no command and reads or writes no file.
Thm_C28_IncompletePayloadRefused ==
    (/\ srv.pc = "sent"
     /\ srv.is_valid
     /\ srv.handler \in {"handle_command", "handle_upload", "handle_download"}
     /\ ~(RequiredFields(srv.handler) \subseteq DOMAIN srv.message.payload)) =>
        /\ srv.reply = send_error("INVALID_REQUEST")
        /\ srv.effect = NoEffect

Wit_C28_IncompletePayloadRefused ==
    /\ srv.pc = "sent"
    /\ srv.is_valid
    /\ srv.handler = "handle_upload"
    /\ "data" \notin DOMAIN srv.message.payload
    /\ srv.reply.code = "INVALID_REQUEST"

\* the handler the endpoint reaches for each type of MessageType a client sends
HandlerFor(type) ==
    CASE type = "command" -> "handle_command"
      [] type = "upload" -> "handle_upload"
      [] type = "download" -> "handle_download"
      [] type = "ping" -> "handle_ping"
      [] type = "script" -> "handle_script"
      [] type = "script_cancel" -> "handle_script_cancel"
      [] type = "cache_lookup" -> "handle_cache_lookup"
      [] type = "cache_store_exec" -> "handle_cache_store_exec"
      [] OTHER -> ""

\* C29: a verified envelope of type command, upload, download, script,
\* script_cancel, ping, cache_lookup or cache_store_exec is dispatched to
\* the handler of that type, whose result is the response.
CE_C29_EveryTypeDispatched ==
    (srv.pc = "sent" /\ srv.message # NoFrame /\ srv.is_valid /\ HandlerFor(srv.message.type) # "") =>
        /\ srv.handler = HandlerFor(srv.message.type)
        /\ srv.reply # send_error("UNKNOWN_TYPE")

Reach_C29_ScriptUnknownType ==
    /\ srv.pc = "sent"
    /\ srv.is_valid
    /\ srv.message.type = "script"
    /\ srv.handler = ""
    /\ srv.reply = send_error("UNKNOWN_TYPE")

\* C30: an envelope that verified once verifies again whenever it is
\* presented with its timestamp still within the max-age window, and is
\* dispatched again.
Thm_C30_ReplayVerifiesAgain ==
    (/\ srv.pc \in {"dispatch", "sent"}
     /\ srv.message # NoFrame
     /\ srv.again
     /\ Fresh(srv.message, srv.verified_at)) =>
        /\ srv.is_valid
        /\ srv.pc = "sent" => srv.reply # send_error("AUTH_FAILED")

Wit_C30_ReplayVerifiesAgain ==
    /\ srv.pc = "sent"
    /\ srv.again
    /\ srv.is_valid
    /\ srv.handler = "handle_command"
    /\ srv.effect.kind = "run"
    /\ srv.verified_at > srv.message.timestamp.int

\* C39: verify_message returns a (valid, error) pair for every decoded frame,
\* whatever the types of its timestamp and signature, and never raises.
CE_C39_VerifyNeverRaises ==
    verdict # NoVerdict => verdict.result.raised = ""

Reach_C39_TimestampTextRaises ==
    /\ verdict # NoVerdict
    /\ Lacking(verdict.message) = {}
    /\ verdict.message.timestamp.kind = "str"
    /\ verdict.check
    /\ verdict.result = Raised("TypeError")

\* execute_script and cancel_script when the timeout does not fire, the
\* awaiting task is not cancelled and on_output does not raise
NextCancel ==
    \/ execute_script \/ Spawned \/ SpawnFails
    \/ ScriptWrites \/ ScriptForks \/ ScriptExits \/ ChildExits
    \/ ReadLine \/ OutputDelivered \/ EndOfStream
    \/ GatherReturns \/ ProcessWaited
    \/ cancel_script \/ CancelGraceExit \/ CancelGraceExpires

\* the event loop runs every task that can take a step, and the five
\* seconds of _kill_process pass; the script itself owes nothing
SpecCancel ==
    /\ Init
    /\ [][NextCancel]_vars
    /\ WF_vars(Spawned \/ SpawnFails)
    /\ WF_vars(ReadLine)
    /\ WF_vars(OutputDelivered)
    /\ WF_vars(EndOfStream)
    /\ WF_vars(GatherReturns)
    /\ WF_vars(ProcessWaited)
    /\ WF_vars(CancelGraceExit)
    /\ WF_vars(CancelGraceExpires)

\* cancel_script found the script Running and its killpg call reached the
\* script's process group
Signalled ==
    /\ cn.pc \in {"grace", "returned"}
    /\ cn.found = "running"
    /\ \E i \in 1..Len(signals) : signals[i].by = "cancel" /\ signals[i].delivered

\* C32: after cancel_script has signalled a running script, the script's
\* execute_script call eventually returns with both readers at end of stream.
CE_C32_CancelledCallReturns ==
    Signalled ~> (ex.pc = "returned" /\ \A s \in StreamNames : readers[s] = "eof")

Reach_C32_DescendantHoldsPipes ==
    /\ Signalled
    /\ cn.pc = "returned"
    /\ signals = <<[sig |-> "SIGTERM", by |-> "cancel", group |-> {"leader", "child"}, delivered |-> TRUE]>>
    /\ ~proc.leader /\ proc.child
    /\ ex.pc = "streaming"
    /\ \A s \in StreamNames : readers[s] = "readline" /\ proc.pipe[s] = 0

\* how many tasks are waiting in recv on the socket s: the receive loop when
\* it runs on s, and every execute_script call in flight on s
SocketReaders(s) ==
    Cardinality({k \in InFlight : ops[k].via = s})
        + (IF receive_task = "running" /\ connected /\ client = s THEN 1 ELSE 0)

\* C35: at every moment at most one task reads frames from an open socket
\* of the persistent connection: never the receive loop together with a
\* script's reader, never two execute_script calls together.
CE_C35_OneReaderPerSocket ==
    \A s \in sockets : SocketReaders(s) <= 1

\* two execute_script calls in flight on the same open socket, the receive
\* loop paused
Reach_C35_TwoScriptsRead ==
    /\ InFlight = Scripts
    /\ client \in sockets
    /\ \A k \in Scripts : ops[k].via = client
    /\ receive_task = "ended"
    /\ connected

(***************************************************************************)
(* The interpretation worker: enqueue on the caller's thread,              *)
(* _async_enqueue and _worker_loop on the worker's event loop              *)
(* (specification SpecWorker).  The PriorityQueue is the set of the        *)
(* requests it holds; get returns the least by the dataclass order.        *)
(***************************************************************************)
\* InterpretationRequest is @dataclass(order=True) with the compared fields
\* priority and sequence, in that order
Before(a, b) ==
    \/ a.priority < b.priority
    \/ a.priority = b.priority /\ a.sequence < b.sequence

\* PriorityQueue.get: the least entry of the heap
Smallest(queue) == CHOOSE r \in queue : \A o \in queue \ {r} : Before(r, o)

\* variant: a plain Queue.get, the entry enqueued first
Earliest(queue) == CHOOSE r \in queue : \A o \in queue \ {r} : r.sequence < o.sequence

\* max(items, key=lambda x: (x.priority, x.sequence))
Lowest(items) == CHOOSE r \in items : \A o \in items \ {r} : Before(o, r)

\* start: the loop thread runs and _init_and_start_worker has made the queue
\* and the worker task
WorkerStart ==
    /\ ~worker.started
    /\ worker' = [worker EXCEPT !.started = TRUE, !.pc = "waiting"]
    /\ UNCHANGED <<sequence_counter, request_queue, scheduled, last_enqueue, issued>>
    /\ UNCHANGED <<tool, codec, duplexVars>>
    /\ UNCHANGED <<cryptoVars, connVars, execVars, linkVars, routeVars, engineVars>>

\* variant: the sequence number is taken but the counter is left alone
enqueue_same_sequence(priority) ==
    /\ worker.started
    /\ Len(issued) < MaxEnqueues
    /\ scheduled' = scheduled \cup {[priority |-> priority, sequence |-> sequence_counter]}
    /\ issued' = Append(issued, sequence_counter)
    /\ sequence_counter' = sequence_counter
    /\ UNCHANGED <<request_queue, worker, last_enqueue>>
    /\ UNCHANGED <<tool, codec, duplexVars>>
    /\ UNCHANGED <<cryptoVars, connVars, execVars, linkVars, routeVars, engineVars>>

\* enqueue, up to the scheduling of _async_enqueue: under _sequence_lock the
\* request takes the counter's value and the counter moves on
enqueue(priority) ==
    /\ worker.started
    /\ Len(issued) < MaxEnqueues
    /\ scheduled' = scheduled \cup {[priority |-> priority, sequence |-> sequence_counter]}
    /\ issued' = Append(issued, sequence_counter)
    /\ sequence_counter' = sequence_counter + 1
    /\ UNCHANGED <<request_queue, worker, last_enqueue>>
    /\ UNCHANGED <<tool, codec, duplexVars>>
    /\ UNCHANGED <<cryptoVars, connVars, execVars, linkVars, routeVars, engineVars>>

\* _async_enqueue runs on the loop: a full queue first loses its lowest
\* entry (_drop_lowest_priority), then the request is put
async_enqueue ==
    \E request \in scheduled :
        LET full == Cardinality(request_queue) >= max_queue_size
            lowest == IF full THEN Lowest(request_queue) ELSE NoRequest
        IN  /\ scheduled' = scheduled \ {request}
            /\ request_queue' = (request_queue \ {lowest}) \cup {request}
            /\ last_enqueue' = [request |-> request, full |-> full, dropped |-> lowest, result |-> TRUE]
            /\ UNCHANGED <<sequence_counter, worker, issued>>
            /\ UNCHANGED <<tool, codec, duplexVars>>
            /\ UNCHANGED <<cryptoVars, connVars, execVars, linkVars, routeVars, engineVars>>

\* variant: the worker takes the request that was enqueued first
WorkerGetsEarliest ==
    /\ worker.pc = "waiting"
    /\ request_queue # {}
    /\ worker' = [worker EXCEPT !.pc = "processing", !.request = Earliest(request_queue), !.before = request_queue]
    /\ request_queue' = request_queue \ {Earliest(request_queue)}
    /\ UNCHANGED <<sequence_counter, scheduled, last_enqueue, issued>>
    /\ UNCHANGED <<tool, codec, duplexVars>>
    /\ UNCHANGED <<cryptoVars, connVars, execVars, linkVars, routeVars, engineVars>>

\* _worker_loop: `await self._request_queue.get()` returns a request
WorkerGets ==
    /\ worker.pc = "waiting"
    /\ request_queue # {}
    /\ worker' = [worker EXCEPT !.pc = "processing", !.request = Smallest(request_queue), !.before = request_queue]
    /\ request_queue' = request_queue \ {Smallest(request_queue)}
    /\ UNCHANGED <<sequence_counter, scheduled, last_enqueue, issued>>
    /\ UNCHANGED <<tool, codec, duplexVars>>
    /\ UNCHANGED <<cryptoVars, connVars, execVars, linkVars, routeVars, engineVars>>

\* _worker_loop: _process_request has returned, the result is put on the
\* result queue and the loop goes back to get
WorkerProcessed ==
    /\ worker.pc = "processing"
    /\ worker' = [worker EXCEPT !.pc = "waiting"]
    /\ UNCHANGED <<sequence_counter, request_queue, scheduled, last_enqueue, issued>>
    /\ UNCHANGED <<tool, codec, duplexVars>>
    /\ UNCHANGED <<cryptoVars, connVars, execVars, linkVars, routeVars, engineVars>>

NextWorker ==
    \/ WorkerStart
    \/ \E priority \in RequestPriority : enqueue(priority)
    \/ async_enqueue
    \/ WorkerGets
    \/ WorkerProcessed

SpecWorker == Init /\ [][NextWorker]_vars

(***************************************************************************)
(* Properties of the interpretation worker (specification SpecWorker).     *)
(***************************************************************************)
\* the place of a request among the enqueue calls, by its sequence number
Position(request) == CHOOSE i \in 1..Len(issued) : issued[i] = request.sequence

\* the worker takes a request only while it holds none, and the one it takes
\* is ahead of every request left in the queue
TakesSmallest ==
    [][ /\ (worker'.pc = "processing" /\ worker.pc # "processing") =>
               /\ worker.pc = "waiting"
               /\ worker'.request \in request_queue
               /\ request_queue' = request_queue \ {worker'.request}
               /\ \A q \in request_queue' :
                     \/ worker'.request.priority < q.priority
                     \/ /\ worker'.request.priority = q.priority
                        /\ Position(worker'.request) < Position(q)
        /\ worker.pc = "processing" => worker'.request = worker.request
      ]_vars

\* every enqueue call assigns a number above all those assigned before it
SequenceGrows ==
    [][ issued' # issued =>
           /\ Len(issued') = Len(issued) + 1
           /\ \A i \in 1..Len(issued) : issued'[i] = issued[i] /\ issued[i] < issued'[Len(issued')]
      ]_vars

\* C33: the worker processes one request at a time and always takes the
\* queued request with the smallest (priority value, sequence number): HIGH
\* before NORMAL before LOW, equal priorities in the order of their enqueue
\* calls, whose sequence numbers strictly increase.
Thm_C33_WorkerTakesSmallest == TakesSmallest /\ SequenceGrows

\* a HIGH request enqueued last is taken while an earlier NORMAL and an
\* earlier LOW request stay queued
Wit_C33_WorkerTakesSmallest ==
    /\ worker.pc = "processing"
    /\ worker.request = [priority |-> HIGH, sequence |-> 3]
    /\ worker.before = {[priority |-> LOW, sequence |-> 1], [priority |-> HIGH, sequence |-> 3]}
    /\ request_queue = {[priority |-> LOW, sequence |-> 1]}
    /\ issued = <<0, 1, 2, 3>>

\* C40: the request queue never holds more than max_queue_size requests,
\* and an enqueue on a full queue never evicts a request of strictly higher
\* priority (lower priority value) than the request being enqueued.
CE_C40_EvictsNoHigherPriority ==
    /\ Cardinality(request_queue) <= max_queue_size
    /\ last_enqueue.dropped # NoRequest =>
           ~(last_enqueue.dropped.priority < last_enqueue.request.priority)

\* a full queue of HIGH requests loses one of them to an incoming LOW request
Reach_C40_HighEvictedForLow ==
    /\ last_enqueue = [request |-> [priority |-> LOW, sequence |-> 2], full |-> TRUE, dropped |-> [priority |-> HIGH, sequence |-> 1], result |-> TRUE]
    /\ request_queue = {[priority |-> HIGH, sequence |-> 0], [priority |-> LOW, sequence |-> 2]}

\* the first half of C40 alone
QueueBounded == Cardinality(request_queue) <= max_queue_size

(***************************************************************************)
(* run_shell_script and the ScriptReviewer (specification SpecTool).  A    *)
(* script is a sequence of lines; a line is its text, whether it is a      *)
(* comment, and the risk levels of the DANGEROUS_PATTERNS it matches.      *)
(***************************************************************************)
SAFE == "safe"
MODERATE == "moderate"
DANGEROUS == "dangerous"
CRITICAL == "critical"

\* ScriptReviewer._risk_value
risk_value(risk) ==
    CASE risk = SAFE -> 0 [] risk = MODERATE -> 1 [] risk = DANGEROUS -> 2 [] risk = CRITICAL -> 3

\* lines and the levels of the patterns that re.search finds in them
ScriptLines ==
    { [text |-> "echo done", comment |-> FALSE, matches |-> <<>>],
      [text |-> "sudo make install", comment |-> FALSE, matches |-> <<MODERATE>>],
      [text |-> "rm -rf build", comment |-> FALSE, matches |-> <<DANGEROUS>>],
      [text |-> "rm -rf /", comment |-> FALSE, matches |-> <<CRITICAL, DANGEROUS>>],
      [text |-> "# rm -rf /", comment |-> TRUE, matches |-> <<CRITICAL, DANGEROUS>>] }

ReviewedScripts == UNION {[1..n -> ScriptLines] : n \in 0..MaxScriptLines}

\* the for loops of ScriptReviewer.process from line number `from` on: comments
\* are skipped, every match is recorded and raises max_risk when it is higher
RECURSIVE Scan(_, _, _)
Scan(script, from, acc) ==
    IF from > Len(script) THEN acc
    ELSE LET line == script[from]
             found == IF line.comment THEN <<>> ELSE line.matches
             top == CHOOSE r \in {acc.max_risk} \cup {found[i] : i \in 1..Len(found)} :
                        \A o \in {acc.max_risk} \cup {found[i] : i \in 1..Len(found)} : risk_value(o) <= risk_value(r)
             noted == SelectSeq(found, LAMBDA r : r \in {CRITICAL, DANGEROUS})
         IN  Scan(script, from + 1,
                  [max_risk |-> top,
                   dangerous_ops |-> acc.dangerous_ops \o [i \in 1..Len(found) |-> <<from, found[i]>>],
                   warnings |-> acc.warnings \o [i \in 1..Len(noted) |-> <<from, noted[i]>>]])

\* variant: a script is approved whatever was found
process_approves_all(script) ==
    LET scan == Scan(script, 1, [max_risk |-> SAFE, dangerous_ops |-> <<>>, warnings |-> <<>>])
    IN  [approved |-> TRUE,
         risk_level |-> IF scan.max_risk = SAFE /\ Len(scan.dangerous_ops) > 0 THEN MODERATE ELSE scan.max_risk,
         warnings |-> scan.warnings,
         dangerous_ops |-> scan.dangerous_ops]

\* ScriptReviewer.process
process(script) ==
    LET scan == Scan(script, 1, [max_risk |-> SAFE, dangerous_ops |-> <<>>, warnings |-> <<>>])
    IN  [approved |-> scan.max_risk # CRITICAL,
         risk_level |-> IF scan.max_risk = SAFE /\ Len(scan.dangerous_ops) > 0 THEN MODERATE ELSE scan.max_risk,
         warnings |-> scan.warnings,
         dangerous_ops |-> scan.dangerous_ops]

Rejected == "Script rejected: Contains critical safety issues that cannot be executed."
CancelledByUser == "Script cancelled by user."

\* what the user types at a prompt
Responses == {"y", "n", "f", "e", "EXECUTE"}

\* variant: with SKIP_PERMISSIONS the script runs before the review is looked at
Decide_skip_first(review, skip, remote, response) ==
    LET run == [prompts |-> <<>>, executed |-> IF remote THEN "remote" ELSE "local", returned |-> "Script executed"]
    IN  IF skip THEN run
        ELSE IF ~review.approved THEN [prompts |-> <<>>, executed |-> "", returned |-> Rejected]
        ELSE IF review.risk_level = DANGEROUS
        THEN IF response # "EXECUTE"
             THEN [prompts |-> <<"Execute? Type 'EXECUTE' to confirm: ">>, executed |-> "", returned |-> CancelledByUser]
             ELSE [run EXCEPT !.prompts = <<"Execute? Type 'EXECUTE' to confirm: ">>]
        ELSE IF review.risk_level = CRITICAL
        THEN [prompts |-> <<>>, executed |-> "", returned |-> "Script rejected: Critical safety issues found."]
        ELSE IF response = "f"
        THEN [prompts |-> <<"Execute? [y/n/e(dit)/f(eedback)]: ", "Feedback for LLM: ">>, executed |-> "", returned |-> "User feedback on script"]
        ELSE IF response # "y"
        THEN [prompts |-> <<"Execute? [y/n/e(dit)/f(eedback)]: ">>, executed |-> "", returned |-> CancelledByUser]
        ELSE [run EXCEPT !.prompts = <<"Execute? [y/n/e(dit)/f(eedback)]: ">>]

\* run_shell_script after the review: which prompts it shows, where it
\* executes the script, what it returns
Decide(review, skip, remote, response) ==
    LET run == [prompts |-> <<>>, executed |-> IF remote THEN "remote" ELSE "local", returned |-> "Script executed"]
    IN  IF ~review.approved THEN [prompts |-> <<>>, executed |-> "", returned |-> Rejected]
        ELSE IF skip THEN run
        ELSE IF review.risk_level = DANGEROUS
        THEN IF response # "EXECUTE"
             THEN [prompts |-> <<"Execute? Type 'EXECUTE' to confirm: ">>, executed |-> "", returned |-> CancelledByUser]
             ELSE [run EXCEPT !.prompts = <<"Execute? Type 'EXECUTE' to confirm: ">>]
        ELSE IF review.risk_level = CRITICAL
        THEN [prompts |-> <<>>, executed |-> "", returned |-> "Script rejected: Critical safety issues found."]
        ELSE IF response = "f"
        THEN [prompts |-> <<"Execute? [y/n/e(dit)/f(eedback)]: ", "Feedback for LLM: ">>, executed |-> "", returned |-> "User feedback on script"]
        ELSE IF response # "y"
        THEN [prompts |-> <<"Execute? [y/n/e(dit)/f(eedback)]: ">>, executed |-> "", returned |-> CancelledByUser]
        ELSE [run EXCEPT !.prompts = <<"Execute? [y/n/e(dit)/f(eedback)]: ">>]

\* one call of run_shell_script, from the review to its return value (the
\* function keeps nothing from one call to the next)
run_shell_script ==
    /\ tool.pc = "idle"
    /\ \E script \in ReviewedScripts, skip \in BOOLEAN, remote \in BOOLEAN, response \in Responses :
         LET review == process(script)
             did == Decide(review, skip, remote, response)
         IN  /\ tool' = [pc |-> "returned", script |-> script, SKIP_PERMISSIONS |-> skip, REMOTE_MODE |-> remote,
                         review |-> review, prompts |-> did.prompts, executed |-> did.executed, returned |-> did.returned]
             /\ UNCHANGED <<workerVars, codec, duplexVars>>
             /\ UNCHANGED <<cryptoVars, connVars, execVars, linkVars, routeVars, engineVars>>

NextTool == run_shell_script

SpecTool == Init /\ [][NextTool]_vars

\* a line of the script that is no comment matches a CRITICAL pattern
FoundCritical(script) ==
    \E n \in 1..Len(script) : ~script[n].comment /\ \E i \in 1..Len(script[n].matches) : script[n].matches[i] = CRITICAL

\* C34: run_shell_script never executes a script whose review found a
\* CRITICAL pattern (review.approved is false): it returns the rejection
\* with no confirmation prompt shown and nothing executed, also when
\* permission prompts are skipped.
Thm_C34_RejectedNeverRuns ==
    tool.pc = "returned" =>
        /\ FoundCritical(tool.script) <=> ~tool.review.approved
        /\ ~tool.review.approved =>
               /\ tool.executed = ""
               /\ tool.prompts = <<>>
               /\ tool.returned = Rejected

\* a script with `rm -rf /` submitted with permission prompts skipped
Wit_C34_RejectedNeverRuns ==
    /\ tool.pc = "returned"
    /\ tool.SKIP_PERMISSIONS
    /\ tool.script = <<[text |-> "echo done", comment |-> FALSE, matches |-> <<>>], [text |-> "rm -rf /", comment |-> FALSE, matches |-> <<CRITICAL, DANGEROUS>>]>>
    /\ tool.review.risk_level = CRITICAL
    /\ ~tool.review.approved
    /\ tool.returned = Rejected
    /\ tool.executed = ""

(***************************************************************************)
(* The protocol records and their payloads (specification SpecProtocol).   *)
(* A field that may be None, bytes, text or a dict is a tagged value;      *)
(* bytes are sequences of 0..255, base64 text is the sequence of its       *)
(* characters' alphabet indices, with 64 for the padding `=`.              *)
(***************************************************************************)
None == [kind |-> "None", bytes |-> <<>>, items |-> {}]
PyBytes(b) == [kind |-> "bytes", bytes |-> b, items |-> {}]
PyText(t) == [kind |-> "str", bytes |-> t, items |-> {}]
PyDict(items) == [kind |-> "dict", bytes |-> <<>>, items |-> items]

\* Python's truth value of such a field
Truthy(x) ==
    CASE x.kind = "None" -> FALSE
      [] x.kind = "dict" -> x.items # {}
      [] OTHER -> x.bytes # <<>>

\* base64.b64encode(b).decode('utf-8')
RECURSIVE b64encode(_)
b64encode(b) ==
    IF Len(b) = 0 THEN <<>>
    ELSE IF Len(b) = 1 THEN <<b[1] \div 4, (b[1] % 4) * 16, 64, 64>>
    ELSE IF Len(b) = 2 THEN <<b[1] \div 4, (b[1] % 4) * 16 + b[2] \div 16, (b[2] % 16) * 4, 64>>
    ELSE <<b[1] \div 4, (b[1] % 4) * 16 + b[2] \div 16, (b[2] % 16) * 4 + b[3] \div 64, b[3] % 64>>
             \o b64encode(SubSeq(b, 4, Len(b)))

\* base64.b64decode(t) of well-padded text
RECURSIVE b64decode(_)
b64decode(t) ==
    IF Len(t) < 4 THEN <<>>
    ELSE LET first == t[1] * 4 + t[2] \div 16
             second == (t[2] % 16) * 16 + t[3] \div 4
             third == (t[3] % 4) * 64 + t[4]
         IN  IF t[3] = 64 THEN <<first>>
             ELSE IF t[4] = 64 THEN <<first, second>>
             ELSE <<first, second, third>> \o b64decode(SubSeq(t, 5, Len(t)))

\* variant: the text is taken for the bytes
b64decode_as_is(t) == t

ByteStrings == UNION {[1..n -> {0, 77, 255}] : n \in 0..MaxBytes}

\* the record values explored, by type
ProtocolRecords ==
    [type : {"CommandRequest"}, command : {"ls", ""}, cwd : {PyNone, "/srv"}, timeout : {300, 5}]
    \cup [type : {"UploadRequest"}, remote_path : {"/tmp/f"}, data : {PyBytes(b) : b \in ByteStrings}, mode : {"0644", "0755"}]
    \cup [type : {"DownloadResponse"}, success : BOOLEAN, data : {None} \cup {PyBytes(b) : b \in ByteStrings}, size : {0}, message : {""}]
    \cup [type : {"ScriptRequest"}, script_id : {"A"}, script : {"make"}, interpreter : {"/bin/bash"}, cwd : {PyNone, "/srv"}, timeout : {3600},
          env : {None, PyDict({}), PyDict({<<"K", "v">>})}]
    \cup [type : {"ScriptOutputChunk"}, script_id : {"A", "B"}, stream : StreamNames, data : {"", "out"}, sequence : {0, 1}]
    \cup [type : {"ErrorResponse"}, error : {"boom"}, code : {"UNKNOWN_ERROR", "AUTH_FAILED"}]

\* r.to_payload()
to_payload(r) ==
    CASE r.type = "UploadRequest" ->
             [r EXCEPT !.data = PyText(b64encode(r.data.bytes))]
      [] r.type = "DownloadResponse" ->
             [r EXCEPT !.data = IF Truthy(r.data) THEN PyText(b64encode(r.data.bytes)) ELSE None]
      [] r.type = "ScriptRequest" ->
             [r EXCEPT !.env = IF Truthy(r.env) THEN r.env ELSE PyDict({})]
      [] OTHER -> r

\* cls.from_payload(payload), for a payload that holds every key
from_payload(payload) ==
    CASE payload.type = "UploadRequest" ->
             [payload EXCEPT !.data = PyBytes(b64decode(payload.data.bytes))]
      [] payload.type = "DownloadResponse" ->
             [payload EXCEPT !.data = IF Truthy(payload.data) THEN PyBytes(b64decode(payload.data.bytes)) ELSE None]
      [] OTHER -> payload

\* a record is turned into its payload and read back
RoundTrip ==
    /\ codec.pc = "idle"
    /\ \E r \in ProtocolRecords :
         codec' = [pc |-> "done", record |-> r, payload |-> to_payload(r), back |-> from_payload(to_payload(r))]
    /\ UNCHANGED <<workerVars, tool, duplexVars>>
    /\ UNCHANGED <<cryptoVars, connVars, execVars, linkVars, routeVars, engineVars>>

NextProtocol == RoundTrip

SpecProtocol == Init /\ [][NextProtocol]_vars

\* C31: for every protocol record r, from_payload(to_payload(r)) equals r.
CE_C31_RoundTripIsIdentity ==
    codec.pc = "done" => codec.back = codec.record

\* a DownloadResponse of an empty file comes back with data None
Reach_C31_EmptyDataBecomesNone ==
    /\ codec.pc = "done"
    /\ codec.record = [type |-> "DownloadResponse", success |-> TRUE, data |-> PyBytes(<<>>), size |-> 0, message |-> ""]
    /\ codec.payload.data = None
    /\ codec.back.data = None

\* the records whose round trip is the identity: all but a DownloadResponse
\* with empty data and a ScriptRequest without env
RoundTripElsewhere ==
    (/\ codec.pc = "done"
     /\ ~(codec.record.type = "DownloadResponse" /\ codec.record.data = PyBytes(<<>>))
     /\ ~(codec.record.type = "ScriptRequest" /\ codec.record.env = None))
        => codec.back = codec.record

(***************************************************************************)
(* The frames of a PersistentRemoteConnection (specification SpecDuplex):  *)
(* what the ping loop, execute_command and execute_script write to the     *)
(* socket, what a server that handles one request at a time writes back    *)
(* (send_response copies no request_id), and which task reads each frame.  *)
(* A timeout fires only for a request whose answer can no longer arrive.   *)
(***************************************************************************)
RequestFrame(type, n, script_id) == [type |-> type, request_id |-> n, script_id |-> script_id]

\* a frame of the server; `answers` notes the request it was written for
ReplyFrame(type, script_id, n, s) == [type |-> type, script_id |-> script_id, answers |-> n, socket |-> s]

\* the answer to request n is neither on its way nor still to be written
Lost(n) ==
    \/ sent_on[n] \notin sockets
    \/ /\ \A i \in 1..Len(to_server[sent_on[n]]) : to_server[sent_on[n]][i].request_id # n
       /\ \A i \in 1..Len(to_client[sent_on[n]]) : to_client[sent_on[n]][i].answers # n

\* connect: the first socket is opened, both loops are started
DxConnect ==
    /\ ~connected
    /\ client = 0
    /\ opened = 0
    /\ client' = 1
    /\ sockets' = {1}
    /\ opened' = 1
    /\ connected' = TRUE
    /\ StartPingLoop
    /\ receive_task' = "running"
    /\ UNCHANGED <<request_id_counter, pending_requests, connRest>>
    /\ UNCHANGED <<reconn, ops, mcp>>
    /\ UNCHANGED <<workerVars, tool, codec, duplexVars>>
    /\ UNCHANGED <<cryptoVars, execVars, routeVars, engineVars>>

\* the operation k, past the gate, writes its request on the socket sock:
\* execute_command through _send_and_wait, execute_script after cancelling
\* the receive task
DxProceed(k, task, sock) ==
    /\ Proceed(k, task, sock)
    /\ IF k = "command"
       THEN /\ to_server' = [to_server EXCEPT ![sock] = Append(@, RequestFrame("command", request_id_counter + 1, ""))]
            /\ sent_on' = [sent_on EXCEPT ![request_id_counter + 1] = sock]
            /\ UNCHANGED script_calls
       ELSE /\ script_calls < MaxScriptCalls
            /\ script_calls' = script_calls + 1
            /\ to_server' = [to_server EXCEPT ![sock] = Append(@, RequestFrame("script", 0, k))]
            /\ UNCHANGED sent_on

\* an operation calls ensure_connected and goes on: with a client and the
\* flag set it uses the socket at hand; otherwise _reconnect closes the old
\* client, opens a new socket, sets the flag and starts both loops
DxOperation(k) ==
    /\ ops[k].pc = "idle"
    /\ client # 0
    /\ InBounds(k)
    /\ IF connected
       THEN /\ client \in sockets
            /\ DxProceed(k, receive_task, client)
            /\ UNCHANGED <<client, sockets, opened, ping_task, connected>>
       ELSE /\ opened < MaxSockets
            /\ sockets' = (sockets \ {client}) \cup {opened + 1}
            /\ client' = opened + 1
            /\ opened' = opened + 1
            /\ connected' = TRUE
            /\ StartPingLoop
            /\ DxProceed(k, "running", opened + 1)
    /\ UNCHANGED <<to_client, peer, last_event>>
    /\ UNCHANGED connRest
    /\ UNCHANGED <<reconn, mcp>>
    /\ UNCHANGED <<workerVars, tool, codec>>
    /\ UNCHANGED <<cryptoVars, execVars, routeVars, engineVars>>

\* _ping_loop wakes and sends a ping through _send_and_wait
DxPingSends ==
    /\ ping_task.pc = "sleeping"
    /\ connected
    /\ client \in sockets
    /\ request_id_counter < MaxRequests
    /\ request_id_counter' = request_id_counter + 1
    /\ pending_requests' = pending_requests \cup {request_id_counter + 1}
    /\ ping_task' = [pc |-> "pinging", request_id |-> request_id_counter + 1]
    /\ to_server' = [to_server EXCEPT ![client] = Append(@, RequestFrame("ping", request_id_counter + 1, ""))]
    /\ sent_on' = [sent_on EXCEPT ![request_id_counter + 1] = client]
    /\ UNCHANGED <<to_client, peer, last_event, script_calls>>
    /\ UNCHANGED <<connected, connRest>>
    /\ UNCHANGED <<client, sockets, opened, receive_task, reconn, ops, mcp>>
    /\ UNCHANGED <<workerVars, tool, codec>>
    /\ UNCHANGED <<cryptoVars, execVars, routeVars, engineVars>>

\* the server's loop on an open socket reads the next request: a ping is
\* answered with a pong, a command with its response, a script starts to
\* stream
DxPeerHandles(s) ==
    /\ s \in sockets
    /\ peer[s] = NoStreaming
    /\ to_server[s] # <<>>
    /\ to_server' = [to_server EXCEPT ![s] = Tail(@)]
    /\ LET request == Head(to_server[s])
       IN  IF request.type = "script"
           THEN /\ peer' = [peer EXCEPT ![s] = [script_id |-> request.script_id, streamed |-> 0]]
                /\ UNCHANGED to_client
           ELSE /\ to_client' = [to_client EXCEPT ![s] =
                        Append(@, ReplyFrame(IF request.type = "ping" THEN "pong" ELSE "response", "", request.request_id, s))]
                /\ UNCHANGED peer
    /\ UNCHANGED <<sent_on, last_event, script_calls>>
    /\ UNCHANGED <<workerVars, tool, codec>>
    /\ UNCHANGED <<cryptoVars, connVars, execVars, linkVars, routeVars, engineVars>>

\* the server writes an output chunk of the script it is running
DxPeerChunk(s) ==
    /\ s \in sockets
    /\ peer[s] # NoStreaming
    /\ peer[s].streamed < MaxStreamed
    /\ peer' = [peer EXCEPT ![s].streamed = @ + 1]
    /\ to_client' = [to_client EXCEPT ![s] = Append(@, ReplyFrame("script_output", peer[s].script_id, 0, s))]
    /\ UNCHANGED <<to_server, sent_on, last_event, script_calls>>
    /\ UNCHANGED <<workerVars, tool, codec>>
    /\ UNCHANGED <<cryptoVars, connVars, execVars, linkVars, routeVars, engineVars>>

\* the script has ended: the server writes the completion frame and goes
\* back to reading requests
DxPeerComplete(s) ==
    /\ s \in sockets
    /\ peer[s] # NoStreaming
    /\ peer' = [peer EXCEPT ![s] = NoStreaming]
    /\ to_client' = [to_client EXCEPT ![s] = Append(@, ReplyFrame("script_complete", peer[s].script_id, 0, s))]
    /\ UNCHANGED <<to_server, sent_on, last_event, script_calls>>
    /\ UNCHANGED <<workerVars, tool, codec>>
    /\ UNCHANGED <<cryptoVars, connVars, execVars, linkVars, routeVars, engineVars>>

\* _receive_loop reads a frame: it carries no request_id and is no push, so
\* with a request pending the entry under the least key is popped and its
\* future completed; with none pending the frame is dropped
DxReceive ==
    /\ receive_task = "running"
    /\ connected
    /\ client \in sockets
    /\ to_client[client] # <<>>
    /\ to_client' = [to_client EXCEPT ![client] = Tail(@)]
    /\ LET frame == Head(to_client[client])
       IN  IF pending_requests = {}
           THEN UNCHANGED <<pending_requests, ping_task, ops, last_event>>
           ELSE LET oldest == min_key(pending_requests)
                IN  /\ pending_requests' = pending_requests \ {oldest}
                    /\ ping_task' = IF ping_task.pc = "pinging" /\ ping_task.request_id = oldest
                                    THEN [pc |-> "sleeping", request_id |-> 0] ELSE ping_task
                    /\ ops' = IF ops["command"].pc = "waiting" /\ ops["command"].request_id = oldest
                              THEN [ops EXCEPT !["command"] = NoOp] ELSE ops
                    /\ last_event' = [kind |-> "completed", who |-> IF ping_task.request_id = oldest THEN "ping" ELSE "command",
                                      request_id |-> oldest, script_id |-> frame.script_id,
                                      sent_on |-> sent_on[oldest], arrived_on |-> frame.socket]
    /\ UNCHANGED <<to_server, peer, sent_on, script_calls>>
    /\ UNCHANGED <<request_id_counter, connected, connRest>>
    /\ UNCHANGED <<client, sockets, opened, receive_task, reconn, mcp>>
    /\ UNCHANGED <<workerVars, tool, codec>>
    /\ UNCHANGED <<cryptoVars, execVars, routeVars, engineVars>>

\* the ping's answer cannot arrive any more: _send_and_wait pops its entry
\* and raises TimeoutError, the loop clears the flag and ends
DxPingTimesOut ==
    /\ ping_task.pc = "pinging"
    /\ ping_task.request_id \in pending_requests
    /\ Lost(ping_task.request_id)
    /\ pending_requests' = pending_requests \ {ping_task.request_id}
    /\ connected' = FALSE
    /\ ping_task' = [pc |-> "timedout", request_id |-> 0]
    /\ last_event' = [kind |-> "timeout", who |-> "ping", request_id |-> ping_task.request_id, script_id |-> "",
                      sent_on |-> sent_on[ping_task.request_id], arrived_on |-> 0]
    /\ UNCHANGED <<to_server, to_client, peer, sent_on, script_calls>>
    /\ UNCHANGED <<request_id_counter, connRest>>
    /\ UNCHANGED <<client, sockets, opened, receive_task, reconn, ops, mcp>>
    /\ UNCHANGED <<workerVars, tool, codec>>
    /\ UNCHANGED <<cryptoVars, execVars, routeVars, engineVars>>

\* execute_command's answer cannot arrive any more: its _send_and_wait
\* pops the entry and raises TimeoutError
DxCommandTimesOut ==
    /\ ops["command"].pc = "waiting"
    /\ ops["command"].request_id \in pending_requests
    /\ Lost(ops["command"].request_id)
    /\ pending_requests' = pending_requests \ {ops["command"].request_id}
    /\ ops' = [ops EXCEPT !["command"] = NoOp]
    /\ last_event' = [kind |-> "timeout", who |-> "command", request_id |-> ops["command"].request_id, script_id |-> "",
                      sent_on |-> sent_on[ops["command"].request_id], arrived_on |-> 0]
    /\ UNCHANGED <<to_server, to_client, peer, sent_on, script_calls>>
    /\ UNCHANGED <<request_id_counter, connected, connRest>>
    /\ UNCHANGED <<client, sockets, opened, receive_task, ping_task, reconn, mcp>>
    /\ UNCHANGED <<workerVars, tool, codec>>
    /\ UNCHANGED <<cryptoVars, execVars, routeVars, engineVars>>

\* execute_script's loop reads a frame from its socket: an output chunk goes
\* to on_output, a completion frame is returned (finally starts the receive
\* loop), a frame of any other type is passed over
DxScriptReads(k) ==
    /\ k \in InFlight
    /\ ops[k].via \in sockets
    /\ to_client[ops[k].via] # <<>>
    /\ to_client' = [to_client EXCEPT ![ops[k].via] = Tail(@)]
    /\ LET frame == Head(to_client[ops[k].via])
           event == [kind |-> "", who |-> k, request_id |-> 0, script_id |-> frame.script_id,
                     sent_on |-> ops[k].via, arrived_on |-> frame.socket]
       IN  CASE frame.type = "script_output" ->
                    /\ last_event' = [event EXCEPT !.kind = "on_output"]
                    /\ UNCHANGED <<ops, receive_task>>
             [] frame.type = "script_complete" ->
                    /\ last_event' = [event EXCEPT !.kind = "returned"]
                    /\ ops' = [ops EXCEPT ![k] = NoOp]
                    /\ receive_task' = "running"
             [] OTHER -> UNCHANGED <<last_event, ops, receive_task>>
    /\ UNCHANGED <<to_server, peer, sent_on, script_calls>>
    /\ UNCHANGED <<client, sockets, opened, ping_task, reconn, mcp>>
    /\ UNCHANGED <<workerVars, tool, codec>>
    /\ UNCHANGED <<cryptoVars, connVars, execVars, routeVars, engineVars>>

\* execute_script's socket was closed by a reconnect: recv raises
\* ConnectionClosed, finally starts the receive loop
DxScriptClosed(k) ==
    /\ k \in Stale
    /\ ops' = [ops EXCEPT ![k] = NoOp]
    /\ receive_task' = "running"
    /\ UNCHANGED <<client, sockets, opened, ping_task, reconn, mcp>>
    /\ UNCHANGED <<workerVars, tool, codec, duplexVars>>
    /\ UNCHANGED <<cryptoVars, connVars, execVars, routeVars, engineVars>>

NextDuplex ==
    \/ DxConnect
    \/ \E k \in OpKinds : DxOperation(k)
    \/ DxPingSends \/ DxPingTimesOut \/ DxCommandTimesOut
    \/ \E s \in 1..MaxSockets : DxPeerHandles(s) \/ DxPeerChunk(s) \/ DxPeerComplete(s)
    \/ DxReceive \/ ReceiveStops
    \/ \E k \in Scripts : DxScriptReads(k) \/ DxScriptClosed(k)

SpecDuplex == Init /\ [][NextDuplex]_vars

(***************************************************************************)
(* Properties of the frames of the persistent connection (specification    *)
(* SpecDuplex).                                                            *)
(***************************************************************************)
\* an execute_script call is reading the client's open socket
Streaming == \E k \in InFlight : ops[k].via = client /\ client \in sockets

\* C36: while a script is streaming over a healthy connection whose server
\* answers every ping, no step clears the connected flag, and a request
\* sent on a socket that is still open never ends in a timeout.
CE_C36_HeartbeatSparesStreaming ==
    /\ [][(Streaming /\ connected) => connected']_vars
    /\ [](~(/\ last_event.kind = "timeout"
            /\ last_event.who = "command"
            /\ last_event.sent_on \in sockets))

\* the pong was read by the script's loop and passed over: the ping timed out
\* on the open socket the script is still reading
Reach_C36_PongReadByScript ==
    /\ Streaming
    /\ ~connected
    /\ ping_task.pc = "timedout"
    /\ last_event.kind = "timeout"
    /\ last_event.who = "ping"
    /\ last_event.sent_on = client
    /\ to_server[client] = <<>>

\* C37: a frame completes only a request that was sent on the socket the
\* frame arrived on, also after a reconnect.
CE_C37_CompletionOnSameSocket ==
    last_event.kind = "completed" => last_event.sent_on = last_event.arrived_on

\* a command sent on the first socket completed by a frame read on the second
Reach_C37_StaleRequestCompleted ==
    /\ last_event.kind = "completed"
    /\ last_event.who = "command"
    /\ last_event.sent_on = 1
    /\ last_event.arrived_on = 2
    /\ ops["command"].pc = "idle"

\* C38: execute_script(script_id) hands to on_output only chunks of its own
\* script_id and returns only on the completion frame of its own script_id.
CE_C38_OwnFramesOnly ==
    last_event.kind \in {"on_output", "returned"} => last_event.script_id = last_event.who

\* the call for script B returned on the completion frame of script A
Reach_C38_ReturnedOnOtherScript ==
    /\ last_event.kind = "returned"
    /\ last_event.who = "script B"
    /\ last_event.script_id = "script A"
    /\ ops["script A"].pc = "inflight"
====
